---- MODULE Spec2Model ----
(***************************************************************************)
(* Ingestion of one PDF by velociraptor: the driver                        *)
(* process_documents_folder, the tree builder summarize_layer and the      *)
(* Neo4jDb persistence operations they call.                               *)
(*                                                                         *)
(* Every external call (model call, graph probe, graph write) is one step  *)
(* of the model, and any of them may raise: nothing in the driver catches, *)
(* so a raise ends the run and leaves the graph as written so far.  A      *)
(* later run of the driver finds the Document by its file path and resumes.*)
(*                                                                         *)
(* Spec is the driver over a folder that holds the one PDF; TreeSpec and   *)
(* TreeLive start at the call of summarize_layer; FolderSpec lets other    *)
(* entries follow the PDF in the folder; EngineSpec calls the operations   *)
(* of Neo4jDb in any order.  The edges are a bag, since Neo4j keeps        *)
(* parallel relationships apart.                                           *)
(*                                                                         *)
(* The callers are followed where the files of this tree disagree: the     *)
(* graph layer uses EdgeType.PART_OF, Summary.text and Chunk.sequence and   *)
(* the driver awaits the summarize functions, while models/edge.py,         *)
(* models/summary.py, models/chunk.py and summarize.py are of another       *)
(* revision.  chunk_and_embed, node_exists_by_position and                  *)
(* get_document_by_path are called but not defined in this tree; they are   *)
(* modelled from their documented contract.  Model texts are non-empty      *)
(* except the text of a Document that has no root summary yet.              *)
(*                                                                         *)
(* The collaborators have specifications of their own, in which the driver  *)
(* is at rest: GeminiSpec is one call of Gemini.embed, Gemini.prompt or      *)
(* chunk_text_for_embedding; QuerySpec is one tool call on the full-text     *)
(* search server; McpSpec is one MCP client, its server connections, its     *)
(* tool registration and its prompt loop; RecursiveSpec is the recursive     *)
(* query server and the chain of nested clients its tool calls start;        *)
(* PdfSpec is the directory of one PDF under repeated calls of               *)
(* split_pdf_to_images, and PdfLive the same with no raise and with          *)
(* interruptions of the first call only.                                     *)
(*                                                                         *)
(* Node.uuid is uuid4(): a value unique to each constructed object.  It is *)
(* modelled by the tuple <<run, kind, height, position, sequence>>, which  *)
(* is unique because one run constructs at most one object per kind and    *)
(* address.                                                                *)
(***************************************************************************)
EXTENDS Integers, Sequences, FiniteSets, Bags, TLC

\* ---- bounds -------------------------------------------------------------
MaxPages == 4        \* pages of the PDF in Spec and FolderSpec: 0 .. MaxPages
MaxLeaves == 8       \* page summaries handed to summarize_layer in TreeSpec
MaxRuns == 2         \* driver runs over the same file
MaxHeight == 6       \* cap on the height of a layer that is reduced further
MaxCalls == 4        \* calls made on the graph layer in EngineSpec
MaxFiles == 3        \* entries of the documents folder in FolderSpec
MaxFragments == 22   \* text fragments handed to Gemini.embed in GeminiSpec
MaxQueryLen == 6     \* tokens of a query sent to the search tool in QuerySpec
MaxConnects == 1     \* calls of connect_to_servers on one client in McpSpec
MaxToolCalls == 4    \* tool calls made on the recursive query server
MaxDepthArg == 4     \* largest depth argument a model sends: 0 .. MaxDepthArg
MaxPdfPages == 4     \* pages of the PDF in PdfSpec: 1 .. MaxPdfPages
MaxSplitCalls == 3   \* calls of split_pdf_to_images that are counted

\* ---- program constants ---------------------------------------------------
BATCH_SIZE == 15
batch_size == 20     \* fragments per embed_content request in Gemini.embed
max_turns == 25      \* turns of the tool-calling loop of the MCP clients
MAX_RECURSION_DEPTH == 3

VARIABLES
    nodes,            \* graph: set of persisted node property records
    edges,            \* graph: bag of <<from uuid, to uuid, type>> relationships
    nPages,           \* number of pages split_pdf_to_images yields for the file
    run,              \* number of driver runs started so far
    pc,               \* position of the running driver
    doc,              \* in-memory Document of the run (<<>> when none)
    is_new_document,
    bi,               \* start index of the current page batch
    batch_results,    \* results of asyncio.gather for the current page batch,
                      \* << >> in the place of an extraction still running
    k,                \* index into batch_results
    pages,            \* processed pages so far
    summaries,        \* page summaries so far; then the input of summarize_layer
    i,                \* window start in summarize_layer
    new_summaries,    \* the layer being produced
    new_summary,      \* the summary of the current batch (<<>> when none)
    ops,              \* graph writes of the db call in progress, in order
    passes,           \* history: the summarize_summaries calls of this run
    probe,            \* the existence probe of the last save step (<<>> when none)
    nFiles,           \* number of entries documents_path.iterdir() yields
    fi,               \* the entry the driver's for loop is at (1 is the PDF)
    calls,            \* number of calls made on the graph layer in EngineSpec
    gem,              \* the call of Gemini.embed or Gemini.prompt in progress
    srv,              \* the tool call the full-text search server is handling
    mcp,              \* the MCP client: its sessions, its tools, its prompt call
    rec,              \* the tool call the recursive query server is handling
    pdf               \* the directory of the PDF and the split_pdf_to_images call

vars == <<nodes, edges, nPages, nFiles, fi, calls, run, pc, doc,
          is_new_document, bi, batch_results, k, pages, summaries, i,
          new_summaries, new_summary, ops, passes, probe, gem, srv,
          mcp, rec, pdf>>

clients == <<gem, srv, mcp, rec, pdf>>

mem == <<doc, is_new_document, bi, batch_results, k, pages, summaries, i,
         new_summaries, new_summary, passes, probe>>

Min(a, b) == IF a < b THEN a ELSE b
Last(s) == s[Len(s)]

\* ---- models/*.py --------------------------------------------------------
Uuid(r, kind, h, p, q) == <<r, kind, h, p, q>>

\* Document(text="", height=-1, position=0, ...); __post_init__ sets
\* document_uuid = uuid
NewDocument(r) ==
    [uuid |-> Uuid(r, "Document", 0, 0, 0), label |-> "Document",
     document_uuid |-> Uuid(r, "Document", 0, 0, 0),
     height |-> -1, position |-> 0, text |-> ""]

\* mutant: the stored uuid is not put back, the object keeps the new one
from_neo4j_NewUuid(props, r) ==
    [uuid |-> Uuid(r, "Document", 0, 0, 0), label |-> "Document",
     document_uuid |-> Uuid(r, "Document", 0, 0, 0),
     height |-> props.height, position |-> props.position,
     text |-> props.text]

\* Document.from_neo4j: the constructor runs __post_init__ on a new uuid,
\* then uuid alone is overwritten with the stored one
from_neo4j(props, r) ==
    [uuid |-> props.uuid, label |-> "Document",
     document_uuid |-> Uuid(r, "Document", 0, 0, 0),
     height |-> props.height, position |-> props.position,
     text |-> props.text]

NewPage(r, d, idx) ==
    [uuid |-> Uuid(r, "Page", 0, idx, 0), label |-> "Page",
     document_uuid |-> d.uuid, height |-> 0, position |-> idx, text |-> ""]

ChunkKind(label) ==
    CASE label = "Page" -> "ChunkOfPage"
      [] label = "Summary" -> "ChunkOfSummary"
      [] OTHER -> "ChunkOfDocument"

\* Chunk(text, embedding, sequence) as yielded by Gemini.embed
NewChunk(r, parent, q) ==
    [uuid |-> Uuid(r, ChunkKind(parent.label), parent.height, parent.position, q),
     label |-> "Chunk", sequence |-> q]

\* ---- summarize/summarize.py ---------------------------------------------
extract_and_summarize_page(r, page) ==
    << [page EXCEPT !.text = "text"],
       [uuid |-> Uuid(r, "Summary", page.height + 1, page.position, 0),
        label |-> "Summary", document_uuid |-> page.document_uuid,
        height |-> page.height + 1, position |-> page.position,
        text |-> "summary"] >>

\* mutants: the position taken from the old layer; the height stepping by 2
summarize_summaries_OldPosition(r, batch, position) ==
    [uuid |-> Uuid(r, "Summary", batch[1].height + 1, batch[1].position, 0),
     label |-> "Summary", document_uuid |-> batch[1].document_uuid,
     height |-> batch[1].height + 1, position |-> batch[1].position,
     text |-> "summary"]

summarize_summaries_HeightPlus2(r, batch, position) ==
    [uuid |-> Uuid(r, "Summary", batch[1].height + 2, position, 0),
     label |-> "Summary", document_uuid |-> batch[1].document_uuid,
     height |-> batch[1].height + 2, position |-> position,
     text |-> "summary"]

summarize_summaries(r, batch, position) ==
    [uuid |-> Uuid(r, "Summary", batch[1].height + 1, position, 0),
     label |-> "Summary", document_uuid |-> batch[1].document_uuid,
     height |-> batch[1].height + 1, position |-> position,
     text |-> "summary"]

\* ---- db/neo4j.py: the graph and its two primitive writes ----------------
TreeNodes == {n \in nodes : n.label # "Chunk"}

NodeOp(node) == [op |-> "node", node |-> node]
EdgeOp(from, to, type) == [op |-> "edge", from |-> from, to |-> to, type |-> type]

\* mutant: the stored nodes of the label are replaced by the saved one
save_node_ByLabel(g, node) == {n \in g : n.label # node.label} \cup {node}

\* mutant: CREATE in place of MERGE, a node is added whatever is stored
save_node_Insert(g, node) == g \cup {node}

\* mutant: MERGE on the label alone with ON CREATE SET: a stored node of the
\* label is matched and nothing is written
save_node_OnCreate(g, node) ==
    IF \E n \in g : n.label = node.label THEN g ELSE g \cup {node}

\* MERGE (n:label:Searchable {uuid}) SET n = props
save_node(g, node) ==
    {n \in g : ~(n.uuid = node.uuid /\ n.label = node.label)} \cup {node}

\* mutant: CREATE in place of MERGE, a relationship is added on every call
create_edge_Create(g, e, from, to, type) ==
    IF (\E a \in g : a.uuid = from) /\ (\E b \in g : b.uuid = to)
    THEN e (+) SetToBag({<<from, to, type>>})
    ELSE e

\* MATCH (from {uuid}) MATCH (to {uuid}) MERGE (from)-[:type]->(to):
\* no row matches, and nothing is written, when an endpoint is absent; MERGE
\* adds the relationship only when the two nodes have none of this type
create_edge(g, e, from, to, type) ==
    IF (\E a \in g : a.uuid = from) /\ (\E b \in g : b.uuid = to)
    THEN IF BagIn(<<from, to, type>>, e)
         THEN e
         ELSE e (+) SetToBag({<<from, to, type>>})
    ELSE e

\* mutant: the backward relationship is not written
link_NextOnly(previous_node, next_node) ==
    << EdgeOp(previous_node.uuid, next_node.uuid, "NEXT") >>

link(previous_node, next_node) ==
    << EdgeOp(previous_node.uuid, next_node.uuid, "NEXT"),
       EdgeOp(next_node.uuid, previous_node.uuid, "PREVIOUS") >>

save_chunk(chunk, parent) ==
    << NodeOp(chunk), EdgeOp(chunk.uuid, parent.uuid, "PART_OF") >>

\* chunk_and_embed(text): no chunk for an empty text; the texts of the model
\* are shorter than chunk_size, so a non-empty one makes one chunk, sequence 0
chunk_and_embed(r, parent) ==
    IF parent.text = "" THEN << >> ELSE << NewChunk(r, parent, 0) >>

\* async for c in chunk_and_embed(node.text): await save_chunk(c, node)
SaveChunks(r, parent) ==
    LET cs == chunk_and_embed(r, parent) IN
    [j \in 1..(2 * Len(cs)) |-> save_chunk(cs[(j + 1) \div 2], parent)[2 - (j % 2)]]

\* prior is << >> for None, <<node>> otherwise
LinkPrior(prior, node) == IF prior = << >> THEN << >> ELSE link(prior[1], node)

save_page(r, page, d, prior_page) ==
    << NodeOp(page), EdgeOp(d.uuid, page.uuid, "CONTAINS"),
       EdgeOp(page.uuid, d.uuid, "PART_OF") >>
    \o SaveChunks(r, page) \o LinkPrior(prior_page, page)

save_page_summary(r, summary, page, prior_summary) ==
    << NodeOp(summary) >> \o SaveChunks(r, summary)
    \o << EdgeOp(summary.uuid, page.uuid, "SUMMARIZES") >>
    \o LinkPrior(prior_summary, summary)

save_summary(r, summary, prior_summary, child_summaries) ==
    << NodeOp(summary) >> \o SaveChunks(r, summary)
    \o LinkPrior(prior_summary, summary)
    \o [j \in 1..Len(child_summaries) |->
            EdgeOp(summary.uuid, child_summaries[j].uuid, "SUMMARIZES")]

save_document(r, d, ss) ==
    << NodeOp(d) >> \o SaveChunks(r, d)
    \o [j \in 1..Len(ss) |-> EdgeOp(d.uuid, ss[j].uuid, "SUMMARIZES")]

\* existence probe by tree address
node_exists_by_position(document_uuid, height, position) ==
    \E n \in TreeNodes : /\ n.document_uuid = document_uuid
                         /\ n.height = height
                         /\ n.position = position

\* the Document stored for the file, by file path (one file is modelled)
get_document_by_path == {n \in nodes : n.label = "Document"}

\* ---- scripts/process_documents.py ---------------------------------------
\* is_new_document: True only where the driver has just created the Document
\* mutant: a resumed document treated as a new one
IsNewDocument_Always(existing) == TRUE

IsNewDocument(existing) == existing = {}

\* mutant: the stored root is not looked at, every run processes the file
FullyProcessed_Never(d) == FALSE

\* a fully processed document is skipped
FullyProcessed(d) == d.text # "" /\ d.height >= 0

\* the probe of both loops: none for a new document, else
\* node_exists_by_position(doc.uuid, height, position) and what it returned
Probe(is_new, d, node) ==
    IF is_new
    THEN << >>
    ELSE << [document_uuid |-> d.uuid, height |-> node.height,
             position |-> node.position,
             exists |-> node_exists_by_position(d.uuid, node.height, node.position)] >>

\* mutant: the write is made whatever the probe returned
ShouldWrite_IgnoreProbe(is_new, node) == TRUE

\* the write guard of both loops: unconditional for a new document, else
\* only when the probe found nothing at the address
ShouldWrite(is_new, node) ==
    is_new \/ ~node_exists_by_position(node.document_uuid, node.height, node.position)

PriorOf(s) == IF s = << >> THEN << >> ELSE << Last(s) >>

BaseCaseLimit == 4
WindowSize == 3
\* mutants: windows that do not overlap; windows that advance by one
WindowStep_Disjoint == WindowSize

WindowStep_One == WindowSize - 2

WindowStep == 2

\* mutant: the batch at the end of the layer takes its first element only
BatchIdx_TailOne(n, start) ==
    IF start + (WindowSize - 1) < n
    THEN [j \in 1..WindowSize |-> start + j]
    ELSE << start + 1 >>

\* batch = summaries[i:i+3] if i + 2 < len(summaries) else summaries[i:]
\* (i is the 0-based start; the result lists the 1-based indices taken)
BatchIdx(n, start) ==
    IF start + (WindowSize - 1) < n
    THEN [j \in 1..WindowSize |-> start + j]
    ELSE [j \in 1..(n - start) |-> start + j]

Pick(s, idx) == [j \in 1..Len(idx) |-> s[idx[j]]]

\* position=len(new_summaries)
NewPosition(ns) == Len(ns)

\* mutant: the root takes the height of the layer it summarizes
RootHeight_OfInput(summary) == summary.height - 1

\* doc.height = summary.height
RootHeight(summary) == summary.height

Resting == {"idle", "done", "aborted"}

NoMem ==
    /\ doc = << >> /\ is_new_document = FALSE /\ bi = 0
    /\ batch_results = << >> /\ k = 0 /\ pages = << >> /\ summaries = << >>
    /\ i = 0 /\ new_summaries = << >> /\ new_summary = << >>
    /\ passes = << >> /\ probe = << >>

\* no call of a model client is in progress
GemIdle ==
    [op |-> "none", pc |-> "idle", n |-> 0, retry_count |-> 0, i |-> 0, j |-> 0,
     chunk_sequence |-> 0, out |-> << >>, calls |-> 0]

\* the full-text search server is handling no tool call
SrvIdle == [pc |-> "idle", name |-> "", query |-> << >>]

\* MCPGeminiClient.__init__ / MCPAnthropicClient.__init__: no session, no
\* tool, no prompt call
McpNew(client) ==
    [client |-> client, pc |-> "new", connects |-> 0, si |-> 0,
     mcp_sessions |-> << >>, tool_registry |-> {},
     function_declarations |-> << >>, turn |-> 0,
     response_text |-> "", model_calls |-> 0, tool_result |-> << >>,
     failed |-> FALSE, result |-> << >>]

\* the recursive query server is handling no tool call
RecIdle ==
    [pc |-> "idle", name |-> "", question |-> "", depth |-> 0,
     operating_depth |-> 0, clients |-> << >>, model_calls |-> 0,
     result |-> "", calls |-> 0]

\* a directory that holds the PDF and nothing else; no call of
\* split_pdf_to_images has been made
PdfIdle ==
    [pc |-> "idle", page_count |-> 0, control |-> {}, pages_dir |-> {},
     page_num |-> 0, out |-> << >>, renders |-> 0, calls |-> 0,
     original |-> << >>, interrupted |-> FALSE]

NoTools == rec = RecIdle /\ pdf = PdfIdle

NoClients ==
    gem = GemIdle /\ srv = SrvIdle /\ mcp = McpNew("gemini") /\ NoTools

Init ==
    /\ nodes = {} /\ edges = EmptyBag
    /\ nPages \in 0..MaxPages
    /\ run = 0 /\ pc = "idle" /\ ops = << >>
    /\ nFiles = 1 /\ fi = 0 /\ calls = 0
    /\ NoMem /\ NoClients

\* one graph write of the db call in progress completes
DoWrite ==
    /\ ops # << >>
    /\ LET o == Head(ops) IN
         IF o.op = "node"
         THEN /\ nodes' = save_node(nodes, o.node)
              /\ edges' = edges
         ELSE /\ edges' = create_edge(nodes, edges, o.from, o.to, o.type)
              /\ nodes' = nodes
    /\ ops' = Tail(ops)
    /\ UNCHANGED <<clients, nPages, nFiles, fi, calls, run, pc, mem>>

\* lines 101-122: look the Document up by path; skip, resume or create
StartRun ==
    /\ pc \in Resting /\ run < MaxRuns
    /\ pc = "done" => fi = nFiles
    /\ run' = run + 1
    /\ LET existing == get_document_by_path
           is_new == IsNewDocument(existing)
           d == IF existing # {}
                THEN from_neo4j(CHOOSE n \in existing : TRUE, run')
                ELSE NewDocument(run')
       IN /\ doc' = d
          /\ is_new_document' = is_new
          /\ ops' = IF existing # {} THEN << >> ELSE save_document(run', d, << >>)
          /\ pc' = IF existing # {} /\ FullyProcessed(d) THEN "done" ELSE "batch"
    /\ bi' = 0 /\ batch_results' = << >> /\ k' = 0
    /\ pages' = << >> /\ summaries' = << >>
    /\ i' = 0 /\ new_summaries' = << >> /\ new_summary' = << >>
    /\ passes' = << >> /\ probe' = << >>
    /\ fi' = 1
    /\ UNCHANGED <<clients, nodes, edges, nPages, nFiles, calls>>

\* lines 130-152: the pages of the next batch are built and one extraction
\* per page is dispatched
batch_tasks ==
    [j \in 1..(Min(bi + BATCH_SIZE, nPages) - bi) |->
        extract_and_summarize_page(run, NewPage(run, doc, bi + j - 1))]

\* the for loop over the batches; after the last batch summarize_layer is
\* called
NextBatch ==
    /\ pc = "batch" /\ ops = << >>
    /\ IF bi < nPages
       THEN /\ batch_results' = [j \in 1..Len(batch_tasks) |-> << >>]
            /\ pc' = "gather"
       ELSE /\ pc' = "layer"
            /\ UNCHANGED batch_results
    /\ UNCHANGED <<clients, nodes, edges, nPages, nFiles, fi, calls, run, doc,
                   is_new_document, bi, k, pages, summaries, i, new_summaries,
                   new_summary, ops, passes, probe>>

\* mutant: the results are collected as the extractions finish
gather_AsCompleted(results, j, result) ==
    LET free == CHOOSE f \in 1..Len(results) :
                    /\ results[f] = << >>
                    /\ \A g \in 1..(f - 1) : results[g] # << >>
    IN [results EXCEPT ![free] = result]

\* asyncio.gather: the result of an awaitable is put at the place of the
\* awaitable in the argument list, whatever order they finish in
gather(results, j, result) == [results EXCEPT ![j] = result]

\* the event loop runs the dispatched extractions concurrently: any one that
\* has not finished may be the next to finish
TaskDone ==
    /\ pc = "gather"
    /\ \E j \in 1..Len(batch_tasks) :
         /\ batch_results[j] = << >>
         /\ batch_results' = gather(batch_results, j, batch_tasks[j])
    /\ UNCHANGED <<clients, nodes, edges, nPages, nFiles, fi, calls, run, pc, doc,
                   is_new_document, bi, k, pages, summaries, i, new_summaries,
                   new_summary, ops, passes, probe>>

\* line 153: the await returns once every extraction of the batch has
\* finished; line 156: the loop over the results starts
Gather ==
    /\ pc = "gather"
    /\ \A j \in 1..Len(batch_results) : batch_results[j] # << >>
    /\ k' = 1
    /\ pc' = "page"
    /\ UNCHANGED <<clients, nodes, edges, nPages, nFiles, fi, calls, run, doc,
                   is_new_document, bi, batch_results, pages, summaries, i,
                   new_summaries, new_summary, ops, passes, probe>>

\* lines 158-175: save the page, unless it is already there
SavePage ==
    /\ pc = "page" /\ ops = << >>
    /\ LET processed_page == batch_results[k][1] IN
         /\ ops' = IF ShouldWrite(is_new_document, processed_page)
                   THEN save_page(run, processed_page, doc, PriorOf(pages))
                   ELSE << >>
         /\ probe' = Probe(is_new_document, doc, processed_page)
    /\ pc' = "page_summary"
    /\ UNCHANGED <<clients, nodes, edges, nPages, nFiles, fi, calls, run, doc,
                   is_new_document, bi, batch_results, k, pages, summaries, i,
                   new_summaries, new_summary, passes>>

\* lines 164-184: save the page summary, unless it is already there
SavePageSummary ==
    /\ pc = "page_summary" /\ ops = << >>
    /\ LET processed_page == batch_results[k][1]
           summary == batch_results[k][2]
       IN /\ ops' = IF ShouldWrite(is_new_document, summary)
                    THEN save_page_summary(run, summary, processed_page,
                                           PriorOf(summaries))
                    ELSE << >>
          /\ probe' = Probe(is_new_document, doc, summary)
    /\ pc' = "page_append"
    /\ UNCHANGED <<clients, nodes, edges, nPages, nFiles, fi, calls, run, doc,
                   is_new_document, bi, batch_results, k, pages, summaries, i,
                   new_summaries, new_summary, passes>>

\* lines 186-187, and the two loop heads
AppendPage ==
    /\ pc = "page_append" /\ ops = << >>
    /\ pages' = Append(pages, batch_results[k][1])
    /\ summaries' = Append(summaries, batch_results[k][2])
    /\ IF k < Len(batch_results)
       THEN /\ k' = k + 1 /\ pc' = "page" /\ bi' = bi
       ELSE /\ k' = k /\ pc' = "batch" /\ bi' = bi + BATCH_SIZE
    /\ UNCHANGED <<clients, nodes, edges, nPages, nFiles, fi, calls, run, doc,
                   is_new_document, batch_results, i, new_summaries,
                   new_summary, ops, passes, probe>>

\* lines 31-37: fewer than 4 summaries: summarize them all into the root
BaseCase ==
    /\ pc = "layer" /\ Len(summaries) < BaseCaseLimit /\ Len(summaries) >= 1
    /\ LET summary == summarize_summaries(run, summaries, 0)
           d == [doc EXCEPT !.text = summary.text, !.height = RootHeight(summary)]
       IN /\ doc' = d
          /\ ops' = save_document(run, d, summaries)
          /\ passes' = Append(passes,
                 [h |-> summaries[1].height, n |-> Len(summaries), base |-> TRUE,
                  batches |-> << [j \in 1..Len(summaries) |-> j - 1] >>,
                  out |-> << summary >>])
    /\ pc' = "base_save"
    /\ UNCHANGED <<clients, nodes, edges, nPages, nFiles, fi, calls, run, is_new_document,
                   bi, batch_results, k, pages, summaries, i, new_summaries,
                   new_summary, probe>>

\* line 33 on an empty list: summaries[0] raises IndexError
BaseCaseEmpty ==
    /\ pc = "layer" /\ Len(summaries) = 0
    /\ pc' = "aborted"
    /\ UNCHANGED <<clients, nodes, edges, nPages, nFiles, fi, calls, run, mem, ops>>

\* line 38, then the driver's loop ends
Finish ==
    /\ pc = "base_save" /\ ops = << >>
    /\ pc' = "done"
    /\ UNCHANGED <<clients, nodes, edges, nPages, nFiles, fi, calls, run, mem, ops>>

\* lines 40-41 (MaxHeight caps the recursion of the model; it never binds,
\* see CapNeverBinds)
ReduceBegin ==
    /\ pc = "layer" /\ ~(Len(summaries) < BaseCaseLimit)
    /\ summaries[1].height < MaxHeight
    /\ i' = 0 /\ new_summaries' = << >>
    /\ passes' = Append(passes,
           [h |-> summaries[1].height, n |-> Len(summaries), base |-> FALSE,
            batches |-> << >>, out |-> << >>])
    /\ pc' = "reduce"
    /\ UNCHANGED <<clients, nodes, edges, nPages, nFiles, fi, calls, run, doc,
                   is_new_document, bi, batch_results, k, pages, summaries,
                   new_summary, ops, probe>>

\* lines 43-64: one batch is summarized and, unless already there, saved
ReduceBatch ==
    /\ pc = "reduce" /\ i < Len(summaries)
    /\ LET idx == BatchIdx(Len(summaries), i)
           batch == Pick(summaries, idx)
           s == summarize_summaries(run, batch, NewPosition(new_summaries))
       IN /\ new_summary' = s
          /\ ops' = IF ShouldWrite(is_new_document, s)
                    THEN save_summary(run, s, PriorOf(new_summaries), batch)
                    ELSE << >>
          /\ probe' = Probe(is_new_document, doc, s)
          /\ passes' = [passes EXCEPT
                 ![Len(passes)].batches = Append(@, [j \in 1..Len(idx) |-> idx[j] - 1]),
                 ![Len(passes)].out = Append(@, s)]
    /\ i' = i + WindowStep
    /\ pc' = "reduce_append"
    /\ UNCHANGED <<clients, nodes, edges, nPages, nFiles, fi, calls, run, doc,
                   is_new_document, bi, batch_results, k, pages, summaries,
                   new_summaries>>

\* line 65
AppendSummary ==
    /\ pc = "reduce_append" /\ ops = << >>
    /\ new_summaries' = Append(new_summaries, new_summary)
    /\ pc' = "reduce"
    /\ UNCHANGED <<clients, nodes, edges, nPages, nFiles, fi, calls, run, doc,
                   is_new_document, bi, batch_results, k, pages, summaries,
                   i, new_summary, ops, passes, probe>>

\* mutant: the recursive call is made as soon as the new layer is not empty
Recurse_Early ==
    /\ pc = "reduce" /\ ops = << >> /\ new_summaries # << >>
    /\ summaries' = new_summaries
    /\ pc' = "layer"
    /\ UNCHANGED <<clients, nodes, edges, nPages, nFiles, fi, calls, run, doc,
                   is_new_document, bi, batch_results, k, pages, i,
                   new_summaries, new_summary, ops, passes, probe>>

\* lines 67-69: the new layer is the input of the recursive call
Recurse ==
    /\ pc = "reduce" /\ ~(i < Len(summaries))
    /\ summaries' = new_summaries
    /\ pc' = "layer"
    /\ UNCHANGED <<clients, nodes, edges, nPages, nFiles, fi, calls, run, doc,
                   is_new_document, bi, batch_results, k, pages, i,
                   new_summaries, new_summary, ops, passes, probe>>

\* mutant: the error is caught and the writes of the call in progress go on
Fail_KeepsWriting ==
    /\ pc \notin Resting
    /\ pc' = "aborted"
    /\ UNCHANGED <<clients, nodes, edges, nPages, nFiles, fi, calls, run, mem, ops>>

\* an external call raises: nothing catches it, the run ends and the
\* in-memory objects are gone; the graph keeps what was written
Fail ==
    /\ pc \notin Resting
    /\ pc' = "aborted"
    /\ ops' = << >>
    /\ doc' = << >> /\ is_new_document' = FALSE /\ bi' = 0
    /\ batch_results' = << >> /\ k' = 0 /\ pages' = << >> /\ summaries' = << >>
    /\ i' = 0 /\ new_summaries' = << >> /\ new_summary' = << >>
    /\ passes' = << >> /\ probe' = << >>
    /\ UNCHANGED <<clients, nodes, edges, nPages, nFiles, fi, calls, run>>

Progress ==
    \/ DoWrite \/ StartRun \/ NextBatch \/ TaskDone \/ Gather
    \/ SavePage \/ SavePageSummary
    \/ AppendPage \/ BaseCase \/ BaseCaseEmpty \/ Finish \/ ReduceBegin
    \/ ReduceBatch \/ AppendSummary \/ Recurse

Next == Progress \/ Fail

Spec == Init /\ [][Next]_vars


\* ---- summarize_layer on its own ------------------------------------------
\* The state at the call of summarize_layer (line 190) in the first run over
\* a file of n pages when no call has failed: Document, Pages and page
\* Summaries are persisted.  TreeSpec starts there, so that inputs long
\* enough for several reduction passes are covered.
RECURSIVE ApplyOps(_, _, _)
ApplyOps(g, os, j) ==
    IF j > Len(os) THEN g
    ELSE LET o == os[j]
             g1 == IF o.op = "node"
                   THEN <<save_node(g[1], o.node), g[2]>>
                   ELSE <<g[1], create_edge(g[1], g[2], o.from, o.to, o.type)>>
         IN IF g1 = g1 THEN ApplyOps(g1, os, j + 1) ELSE g1

LeafResults(n) ==
    [j \in 1..n |-> extract_and_summarize_page(1, NewPage(1, NewDocument(1), j - 1))]

\* the graph after the Document and the first j pages were saved
RECURSIVE LeafGraph(_, _)
LeafGraph(res, j) ==
    IF j = 0
    THEN ApplyOps(<<{}, EmptyBag>>, save_document(1, NewDocument(1), << >>), 1)
    ELSE LET g == LeafGraph(res, j - 1)
             os == save_page(1, res[j][1], NewDocument(1),
                             IF j = 1 THEN << >> ELSE << res[j - 1][1] >>)
                   \o save_page_summary(1, res[j][2], res[j][1],
                             IF j = 1 THEN << >> ELSE << res[j - 1][2] >>)
         IN ApplyOps(g, os, 1)

LeafState(n) ==
    LET res == LeafResults(n)
        g == LeafGraph(res, n)
    IN /\ nodes = g[1] /\ edges = g[2]
       /\ nPages = n /\ run = 1 /\ pc = "layer" /\ ops = << >>
       /\ doc = NewDocument(1) /\ is_new_document = TRUE
       /\ bi = (IF n = 0 THEN 0 ELSE BATCH_SIZE)
       /\ batch_results = res /\ k = n
       /\ pages = [j \in 1..n |-> res[j][1]]
       /\ summaries = [j \in 1..n |-> res[j][2]]
       /\ i = 0 /\ new_summaries = << >> /\ new_summary = << >>
       /\ passes = << >> /\ probe = << >>
       /\ nFiles = 1 /\ fi = 1 /\ calls = 0 /\ NoClients

InitTree == \E n \in 0..MaxLeaves : LeafState(n)

\* The result of asyncio.gather does not depend on the order in which the
\* extractions finish (checked under Spec, where they finish in any order), and
\* summarize_layer starts after the page loop.  Under TreeSpec and TreeLive the
\* event loop finishes the extractions of a batch in the order of their pages.
TaskDoneInOrder ==
    /\ pc = "gather"
    /\ \E j \in 1..Len(batch_tasks) :
         /\ batch_results[j] = << >>
         /\ \A g \in 1..(j - 1) : batch_results[g] # << >>
         /\ batch_results' = gather(batch_results, j, batch_tasks[j])
    /\ UNCHANGED <<clients, nodes, edges, nPages, nFiles, fi, calls, run, pc, doc,
                   is_new_document, bi, k, pages, summaries, i, new_summaries,
                   new_summary, ops, passes, probe>>

TreeProgress ==
    \/ DoWrite \/ StartRun \/ NextBatch \/ TaskDoneInOrder \/ Gather
    \/ SavePage \/ SavePageSummary
    \/ AppendPage \/ BaseCase \/ BaseCaseEmpty \/ Finish \/ ReduceBegin
    \/ ReduceBatch \/ AppendSummary \/ Recurse

TreeNext == TreeProgress \/ Fail

TreeSpec == InitTree /\ [][TreeNext]_vars

\* LeafState is the state the driver itself reaches
LeafStateReached ==
    (pc = "layer" /\ run = 1 /\ passes = << >>) => LeafState(nPages)

\* TreeLive: only the first run may be cut short by a call that raises; the
\* run that resumes it meets no failure and shows what summarize_layer does
\* when nothing raises.  Every enabled step other than a failure is eventually
\* taken: the event loop runs the one coroutine of the driver until it returns
\* or raises.
FailFirst == Fail /\ run = 1

NextLive == TreeProgress \/ FailFirst

TreeLive == InitTree /\ [][NextLive]_vars /\ WF_vars(TreeProgress)

\* the cap of ReduceBegin is never what stops a reduction
CapNeverBinds ==
    (pc = "layer" /\ Len(summaries) >= BaseCaseLimit) => summaries[1].height < MaxHeight

\* ---- the documents folder ---------------------------------------------------
\* FolderSpec: the folder holds the PDF followed by other entries.  The body
\* of the driver's for loop is modelled for the PDF only; an entry after it is
\* visited in one step (it is skipped, or processed without error).
FolderInit ==
    /\ nodes = {} /\ edges = EmptyBag
    /\ nPages \in 0..MaxPages
    /\ run = 0 /\ pc = "idle" /\ ops = << >>
    /\ nFiles \in 1..MaxFiles /\ fi = 0 /\ calls = 0
    /\ NoMem /\ NoClients

\* line 89: the for loop takes the next entry of the folder
NextFile ==
    /\ pc = "done" /\ fi < nFiles
    /\ fi' = fi + 1
    /\ UNCHANGED <<clients, nodes, edges, nPages, nFiles, calls, run, pc, mem, ops>>

FolderNext == Next \/ NextFile

FolderSpec == FolderInit /\ [][FolderNext]_vars

\* ---- the graph layer on its own -------------------------------------------
\* EngineSpec: the public operations of Neo4jDb called in any order, with
\* nodes as the driver builds them: a page before and after extraction, the
\* summary of the page, a second page and a chunk.  Writes of one call are made one by one.
EdgeType == {"NEXT", "PREVIOUS", "SUMMARIZES", "CONTAINS", "PART_OF"}

EnginePage == NewPage(1, NewDocument(1), 0)

EngineOtherPage == NewPage(1, NewDocument(1), 1)

EngineTreeNodes ==
    {EnginePage, extract_and_summarize_page(1, EnginePage)[1],
     extract_and_summarize_page(1, EnginePage)[2], EngineOtherPage}

EngineChunk == NewChunk(1, EnginePage, 0)

EngineCalls ==
    {<< NodeOp(n) >> : n \in EngineTreeNodes}
    \cup {<< EdgeOp(a.uuid, b.uuid, t) >> :
              <<a, b, t>> \in {x \in EngineTreeNodes \X EngineTreeNodes \X EdgeType :
                                 x[1].uuid # x[2].uuid}}
    \cup {link(x[1], x[2]) :
              x \in {y \in EngineTreeNodes \X EngineTreeNodes : y[1].uuid # y[2].uuid}}
    \cup {save_chunk(EngineChunk, n) : n \in EngineTreeNodes}

EngineInit ==
    /\ nodes = {} /\ edges = EmptyBag
    /\ nPages = 0 /\ run = 0 /\ pc = "idle" /\ ops = << >>
    /\ nFiles = 1 /\ fi = 0 /\ calls = 0
    /\ NoMem /\ NoClients

\* a caller starts one operation of the graph layer
EngineCall ==
    /\ ops = << >> /\ calls < MaxCalls
    /\ \E c \in EngineCalls : ops' = c
    /\ calls' = calls + 1
    /\ UNCHANGED <<clients, nodes, edges, nPages, nFiles, fi, run, pc, mem>>

EngineNext == EngineCall \/ DoWrite

EngineSpec == EngineInit /\ [][EngineNext]_vars

\* ---- llm/gemini.py and split/text.py -------------------------------------
\* GeminiSpec: one call of Gemini.embed, Gemini.prompt or
\* chunk_text_for_embedding.  Every request to the provider is one step and
\* may raise.  embed is an async generator: each yield is a step, and what it
\* has yielded is with the consumer for good.  A text fragment is known by
\* its index in text_chunks.
driver == <<nodes, edges, nPages, nFiles, fi, calls, run, pc, mem, ops>>

GeminiInit ==
    /\ nodes = {} /\ edges = EmptyBag
    /\ nPages = 0 /\ run = 0 /\ pc = "idle" /\ ops = << >>
    /\ nFiles = 1 /\ fi = 0 /\ calls = 0
    /\ NoMem /\ NoClients

\* RecursiveCharacterTextSplitter.split_text: no fragment for an empty text;
\* the texts of the model are shorter than chunk_size and make one fragment
split_text(text) == IF text = "" THEN << >> ELSE << text >>

\* mutant: the request is made before the length of text_chunks is looked at
HasBatch_DoWhile(idx, n) == idx = 0 \/ idx < n

\* line 95: for i in range(0, len(text_chunks), batch_size)
HasBatch(idx, n) == idx < n

\* line 96: batch = text_chunks[i:i + batch_size]
BatchLen(idx, n) == IF idx < n THEN Min(idx + batch_size, n) - idx ELSE 0

\* mutant: one retry more
prompt_retry_Three(retry_count) == retry_count < 3

\* line 71: if retry_count < 2
prompt_retry(retry_count) == retry_count < 2

\* line 112: if retry_count < 2
embed_retry(retry_count) == retry_count < 2

\* a caller iterates llm.embed(text_chunks)
EmbedCall ==
    /\ gem.pc = "idle"
    /\ \E n \in 0..MaxFragments :
         gem' = [GemIdle EXCEPT !.op = "embed", !.pc = "loop", !.n = n]
    /\ UNCHANGED <<driver, rec, pdf, srv, mcp>>

\* lines 95-102: the request for the next batch is answered
EmbedBatch ==
    /\ gem.op = "embed" /\ gem.pc = "loop" /\ HasBatch(gem.i, gem.n)
    /\ gem' = IF BatchLen(gem.i, gem.n) = 0
              THEN [gem EXCEPT !.calls = @ + 1, !.i = @ + batch_size]
              ELSE [gem EXCEPT !.calls = @ + 1, !.j = 0, !.pc = "yield"]
    /\ UNCHANGED <<driver, rec, pdf, srv, mcp>>

\* lines 104-107: one Chunk of the batch is yielded; after the last one the
\* for loop goes to the next batch
EmbedYield ==
    /\ gem.op = "embed" /\ gem.pc = "yield"
    /\ LET chunk == [text |-> gem.i + gem.j, sequence |-> gem.chunk_sequence]
           last == gem.j + 1 = BatchLen(gem.i, gem.n)
       IN gem' = [gem EXCEPT !.out = Append(@, chunk),
                             !.chunk_sequence = @ + 1,
                             !.j = IF last THEN 0 ELSE @ + 1,
                             !.i = IF last THEN @ + batch_size ELSE @,
                             !.pc = IF last THEN "loop" ELSE "yield"]
    /\ UNCHANGED <<driver, rec, pdf, srv, mcp>>

\* lines 109-110: the loop is over, the generator ends
EmbedEnd ==
    /\ gem.op = "embed" /\ gem.pc = "loop" /\ ~HasBatch(gem.i, gem.n)
    /\ gem' = [gem EXCEPT !.pc = "returned"]
    /\ UNCHANGED <<driver, rec, pdf, srv, mcp>>

\* lines 98 and 111-118: the request raises; embed(text_chunks,
\* retry_count + 1) starts over with i = 0 and chunk_sequence = 0 and its
\* chunks are yielded on, or the error is raised
EmbedRaise ==
    /\ gem.op = "embed" /\ gem.pc = "loop" /\ HasBatch(gem.i, gem.n)
    /\ gem' = IF embed_retry(gem.retry_count)
              THEN [gem EXCEPT !.calls = @ + 1, !.retry_count = @ + 1,
                               !.i = 0, !.j = 0, !.chunk_sequence = 0]
              ELSE [gem EXCEPT !.calls = @ + 1, !.pc = "raised"]
    /\ UNCHANGED <<driver, rec, pdf, srv, mcp>>

\* a caller awaits llm.prompt(prompt, attachments); n is the number of
\* attachments
PromptCall ==
    /\ gem.pc = "idle"
    /\ \E n \in 0..1 :
         gem' = [GemIdle EXCEPT !.op = "prompt", !.pc = "attempt", !.n = n]
    /\ UNCHANGED <<driver, rec, pdf, srv, mcp>>

\* lines 59-68: generate_content answers and its text is returned
PromptReturn ==
    /\ gem.op = "prompt" /\ gem.pc = "attempt"
    /\ gem' = [gem EXCEPT !.calls = @ + 1, !.pc = "returned",
                          !.out = << "response" >>]
    /\ UNCHANGED <<driver, rec, pdf, srv, mcp>>

\* lines 59-76: generate_content raises; the call is made again with
\* retry_count + 1, or the error is raised
PromptRaise ==
    /\ gem.op = "prompt" /\ gem.pc = "attempt"
    /\ gem' = IF prompt_retry(gem.retry_count)
              THEN [gem EXCEPT !.calls = @ + 1, !.retry_count = @ + 1]
              ELSE [gem EXCEPT !.calls = @ + 1, !.pc = "raised"]
    /\ UNCHANGED <<driver, rec, pdf, srv, mcp>>

\* lines 39-52 and 70-76: an attachment cannot be read; the error is handled
\* as one of generate_content, which is not reached in this attempt
PromptAttachmentRaise ==
    /\ gem.op = "prompt" /\ gem.pc = "attempt" /\ gem.n > 0
    /\ gem' = IF prompt_retry(gem.retry_count)
              THEN [gem EXCEPT !.retry_count = @ + 1]
              ELSE [gem EXCEPT !.pc = "raised"]
    /\ UNCHANGED <<driver, rec, pdf, srv, mcp>>

\* split/text.py lines 9-24: llm.embed(text_chunks) makes the generator and
\* nothing iterates it; the loop over the fragments reads the undefined name
\* vector, so only a text without fragments gets to the return
chunk_text_for_embedding ==
    /\ gem.pc = "idle"
    /\ \E text \in {"", "text"} :
         LET text_chunks == split_text(text) IN
         gem' = [GemIdle EXCEPT !.op = "chunk_text_for_embedding",
                                !.n = Len(text_chunks),
                                !.pc = IF text_chunks = << >>
                                       THEN "returned" ELSE "raised"]
    /\ UNCHANGED <<driver, rec, pdf, srv, mcp>>

GeminiNext ==
    \/ EmbedCall \/ EmbedBatch \/ EmbedYield \/ EmbedEnd \/ EmbedRaise
    \/ PromptCall \/ PromptReturn \/ PromptRaise \/ PromptAttachmentRaise
    \/ chunk_text_for_embedding

GeminiSpec == GeminiInit /\ [][GeminiNext]_vars

\* ---- mcp/neo4j_full_text_search_mcp.py -----------------------------------
\* QuerySpec: one call of the tool of the full-text search server.  A query
\* is a sequence of tokens: white space, the word CALL, the two procedure
\* names db.index.fulltext.queryNodes and db.index.fulltext.queryRelationships,
\* the opening parenthesis, the arguments with the closing parenthesis, and a
\* DETACH DELETE clause for the operations that are not a full-text call.
\* Words are taken in one case; the match ignores case.
Token == {"ws", "CALL", "queryNodes", "queryRelationships", "(", "args)", "DELETE"}

Queries == UNION {[1..n -> Token] : n \in 0..MaxQueryLen}

ToolNames == {"neo4j_fulltext_search", "write_neo4j_cypher"}

\* str.strip(): white space at both ends is dropped
RECURSIVE strip(_)
strip(q) ==
    IF q = << >> THEN q
    ELSE IF Head(q) = "ws" THEN strip(Tail(q))
    ELSE IF Last(q) = "ws" THEN strip(SubSeq(q, 1, Len(q) - 1))
    ELSE q

\* \s*: the first position at or after p that holds no white space
RECURSIVE SkipWs(_, _)
SkipWs(q, p) == IF p <= Len(q) /\ q[p] = "ws" THEN SkipWs(q, p + 1) ELSE p

At(q, p, t) == p <= Len(q) /\ q[p] = t

\* re.match(r'^\s*CALL\s+<procedure>\s*\(', query): the pattern is looked
\* for at the start of the query; what follows the parenthesis is not looked at
re_match(procedure, q) ==
    LET c == SkipWs(q, 1)
        n == SkipWs(q, c + 1)
        o == SkipWs(q, n + 1)
    IN /\ At(q, c, "CALL") /\ At(q, c + 1, "ws")
       /\ At(q, n, procedure) /\ At(q, o, "(")

\* lines 19-22
ALLOWED_PATTERNS == {"queryNodes", "queryRelationships"}

\* lines 25-42
is_query_allowed(query) ==
    \E pattern \in ALLOWED_PATTERNS : re_match(pattern, strip(query))

ServerInit ==
    /\ nodes = {} /\ edges = EmptyBag
    /\ nPages = 0 /\ run = 0 /\ pc = "idle" /\ ops = << >>
    /\ nFiles = 1 /\ fi = 0 /\ calls = 0
    /\ NoMem /\ NoClients

\* lines 66-86: the name and the query are checked
handle_call_tool ==
    /\ srv.pc = "idle"
    /\ \E name \in ToolNames, query \in Queries :
         srv' = [pc |-> IF name # "neo4j_fulltext_search" \/ query = << >>
                        THEN "raised"
                        ELSE IF ~is_query_allowed(query) THEN "rejected"
                        ELSE "run",
                 name |-> name, query |-> query]
    /\ UNCHANGED <<driver, rec, pdf, gem, mcp>>

\* lines 88-136: session.run(query) executes the query as it was received
RunQuery ==
    /\ srv.pc = "run"
    /\ srv' = [srv EXCEPT !.pc = "executed"]
    /\ UNCHANGED <<driver, rec, pdf, gem, mcp>>

\* lines 138-145: the error of the database is returned as text
RunQueryError ==
    /\ srv.pc = "run"
    /\ srv' = [srv EXCEPT !.pc = "error"]
    /\ UNCHANGED <<driver, rec, pdf, gem, mcp>>

QueryNext == handle_call_tool \/ RunQuery \/ RunQueryError

QuerySpec == ServerInit /\ [][QueryNext]_vars

\* ---- llm/gemini_mcp_client.py and llm/anthropic_mcp_client.py ------------
\* McpSpec: one MCP client.  connect_to_servers goes through the configured
\* servers and then registers the tools the sessions list; prompt runs the
\* tool-calling loop.  Two servers are configured here; a session may list
\* any tools, and the model may ask for any tool name.  The two clients
\* differ in what prompt does with an error: MCPGeminiClient falls back to
\* Gemini.prompt, MCPAnthropicClient raises it again.
Clients == {"gemini", "anthropic"}

Servers == << "neo4j_fulltext", "neo4j_cypher" >>

ToolOrder == << "neo4j_fulltext_search", "read_neo4j_cypher", "write_neo4j_cypher" >>

ToolUniverse == {ToolOrder[t] : t \in 1..Len(ToolOrder)}

\* what a session may answer to list_tools: any of the tool names, each once
Listed(S) == LET In(t) == t \in S IN SelectSeq(ToolOrder, In)

ToolLists == {Listed(S) : S \in SUBSET ToolUniverse}

\* the tool names the model may ask for
RequestedTools == ToolUniverse \cup {"no_such_tool"}

McpInit ==
    /\ nodes = {} /\ edges = EmptyBag
    /\ nPages = 0 /\ run = 0 /\ pc = "idle" /\ ops = << >>
    /\ nFiles = 1 /\ fi = 0 /\ calls = 0
    /\ NoMem /\ gem = GemIdle /\ srv = SrvIdle /\ NoTools
    /\ \E client \in Clients : mcp = McpNew(client)

\* mutant: the write tool is registered like any other
SkipTool_None(name) == FALSE

\* line 233 (413): if tool.name == "write_neo4j_cypher": continue
SkipTool(name) == name = "write_neo4j_cypher"

\* line 226 (406): the name of the configured server at the index of the
\* session
server_name(idx) ==
    IF idx <= Len(Servers) THEN Servers[idx] ELSE "server_other"

\* lines 231-264 (411-444): the tools of one session are registered one after
\* the other; state is <<tool_registry, function_declarations>>, and fail is
\* the place of the tool at which building the declaration raises (0: none)
RECURSIVE register_session(_, _, _, _, _)
register_session(state, tools, idx, p, fail) ==
    IF p > Len(tools) THEN state
    ELSE IF SkipTool(tools[p])
         THEN register_session(state, tools, idx, p + 1, fail)
    ELSE LET reg == {e \in state[1] : e.tool # tools[p]}
                        \cup {[tool |-> tools[p], session |-> idx,
                               server_name |-> server_name(idx)]}
         IN IF p = fail THEN <<reg, state[2]>>
            ELSE register_session(<<reg, Append(state[2], tools[p])>>,
                                  tools, idx, p + 1, fail)

\* lines 139-146 (319-326): connect_to_servers starts its loop over the servers
connect_to_servers ==
    /\ mcp.pc \in {"new", "ready"} /\ mcp.connects < MaxConnects
    /\ mcp' = [mcp EXCEPT !.pc = "connect", !.si = 1, !.connects = @ + 1]
    /\ UNCHANGED <<driver, rec, pdf, gem, srv>>

\* lines 151-155 (331-335): the session of the next server is opened and kept
ConnectServer ==
    /\ mcp.pc = "connect" /\ mcp.si <= Len(Servers)
    /\ mcp' = [mcp EXCEPT !.mcp_sessions = Append(@, Servers[mcp.si]),
                          !.si = @ + 1]
    /\ UNCHANGED <<driver, rec, pdf, gem, srv>>

\* lines 147-149 and 156-158, 213-215: the server has no container, or the
\* connection fails; the loop goes on
ConnectSkip ==
    /\ mcp.pc = "connect" /\ mcp.si <= Len(Servers)
    /\ mcp' = [mcp EXCEPT !.si = @ + 1]
    /\ UNCHANGED <<driver, rec, pdf, gem, srv>>

\* lines 163 and 217-222 (343, 397-402): _register_tools clears the registry
\* and the declarations
RegisterBegin ==
    /\ mcp.pc = "connect" /\ mcp.si > Len(Servers)
    /\ mcp' = [mcp EXCEPT !.pc = "register", !.si = 1, !.tool_registry = {},
                          !.function_declarations = << >>]
    /\ UNCHANGED <<driver, rec, pdf, gem, srv>>

\* lines 224-267 (404-447): the next session lists its tools and they are
\* registered; an error ends the work on this session only
RegisterSession ==
    /\ mcp.pc = "register" /\ mcp.si <= Len(mcp.mcp_sessions)
    /\ \E tools \in ToolLists, fail \in 0..Cardinality(ToolUniverse) :
         /\ fail <= Len(tools)
         /\ LET r == register_session(
                         <<mcp.tool_registry, mcp.function_declarations>>,
                         tools, mcp.si, 1, fail)
            IN mcp' = [mcp EXCEPT !.tool_registry = r[1],
                                  !.function_declarations = r[2],
                                  !.si = @ + 1]
    /\ UNCHANGED <<driver, rec, pdf, gem, srv>>

\* lines 229 and 266-267 (409, 446-447): list_tools raises
RegisterSessionRaise ==
    /\ mcp.pc = "register" /\ mcp.si <= Len(mcp.mcp_sessions)
    /\ mcp' = [mcp EXCEPT !.si = @ + 1]
    /\ UNCHANGED <<driver, rec, pdf, gem, srv>>

\* line 269 (449): the loop over the sessions is over
RegisterEnd ==
    /\ mcp.pc = "register" /\ mcp.si > Len(mcp.mcp_sessions)
    /\ mcp' = [mcp EXCEPT !.pc = "ready", !.si = 0]
    /\ UNCHANGED <<driver, rec, pdf, gem, srv>>

\* lines 309-361 (488-540): a name that is not in the registry is answered
\* with an error at once; otherwise the session of the tool is called, and an
\* error of the call is returned as the result
call_mcp_tool(registry, tool_name, call_fails) ==
    IF ~\E e \in registry : e.tool = tool_name
    THEN [tool |-> tool_name, session_called |-> FALSE, error |-> "not found"]
    ELSE [tool |-> tool_name, session_called |-> TRUE,
          error |-> IF call_fails THEN "failed" ELSE "none"]

\* mutant: the loop runs while turn <= max_turns
TurnsLeft_OneMore(turn) == turn <= max_turns

\* line 443 (682): while turn < max_turns
TurnsLeft(turn) == turn < max_turns

\* lines 363-441 (645-680): prompt is called
McpPrompt ==
    /\ mcp.pc = "ready"
    /\ mcp' = [mcp EXCEPT !.pc = "turn", !.turn = 0, !.response_text = ""]
    /\ UNCHANGED <<driver, rec, pdf, gem, srv>>

\* lines 443-472 (682-727): the model answers the request of the turn; an
\* answer without a tool call ends the prompt with the text of the answer
ModelTurn ==
    /\ mcp.pc = "turn" /\ TurnsLeft(mcp.turn)
    /\ \E text \in {"", "text"}, has_calls \in BOOLEAN :
         mcp' = [mcp EXCEPT !.turn = @ + 1, !.model_calls = @ + 1,
                            !.response_text = text,
                            !.pc = IF has_calls THEN "tools" ELSE "returned",
                            !.result = IF has_calls THEN @ ELSE << text >>]
    /\ UNCHANGED <<driver, rec, pdf, gem, srv>>

\* lines 448, 529-533 (688, 874-876): the request of the turn raises;
\* MCPGeminiClient falls back to Gemini.prompt, MCPAnthropicClient raises
\* the error again
ModelRaise ==
    /\ mcp.pc = "turn" /\ TurnsLeft(mcp.turn)
    /\ LET m == [mcp EXCEPT !.turn = @ + 1, !.model_calls = @ + 1,
                             !.response_text = ""] IN
         IF mcp.client = "gemini"
         THEN /\ mcp' = [m EXCEPT !.pc = "fallback", !.failed = TRUE]
              /\ \E attachments \in 0..1 :
                    gem' = [GemIdle EXCEPT !.op = "prompt", !.pc = "attempt",
                                           !.n = attachments]
         ELSE /\ mcp' = [m EXCEPT !.pc = "raised", !.failed = TRUE]
              /\ gem' = gem
    /\ UNCHANGED <<driver, rec, pdf, srv>>

\* lines 481-518 (771-865): one of the tool calls of the answer is made
ToolCall ==
    /\ mcp.pc = "tools"
    /\ \E tool_name \in RequestedTools, call_fails \in BOOLEAN :
         mcp' = [mcp EXCEPT !.tool_result =
                     call_mcp_tool(mcp.tool_registry, tool_name, call_fails)]
    /\ UNCHANGED <<driver, rec, pdf, gem, srv>>

\* the tool calls of the answer are done, the loop goes to the next turn
NextTurn ==
    /\ mcp.pc = "tools"
    /\ mcp' = [mcp EXCEPT !.pc = "turn", !.tool_result = << >>]
    /\ UNCHANGED <<driver, rec, pdf, gem, srv>>

\* lines 522-527 (870-872): the turns are used up
MaxTurnsReached ==
    /\ mcp.pc = "turn" /\ ~TurnsLeft(mcp.turn)
    /\ mcp' = [mcp EXCEPT !.pc = "returned",
                          !.result = IF mcp.response_text # ""
                                     THEN << mcp.response_text >>
                                     ELSE << "Maximum conversation turns reached" >>]
    /\ UNCHANGED <<driver, rec, pdf, gem, srv>>

\* line 533: what Gemini.prompt returns or raises is what prompt returns or
\* raises
FallbackDone ==
    /\ mcp.pc = "fallback" /\ gem.pc \in {"returned", "raised"}
    /\ mcp' = [mcp EXCEPT !.pc = gem.pc, !.result = gem.out]
    /\ UNCHANGED <<driver, rec, pdf, gem, srv>>

McpNext ==
    \/ connect_to_servers \/ ConnectServer \/ ConnectSkip \/ RegisterBegin
    \/ RegisterSession \/ RegisterSessionRaise \/ RegisterEnd
    \/ McpPrompt \/ ModelTurn \/ ModelRaise \/ ToolCall \/ NextTurn
    \/ MaxTurnsReached \/ FallbackDone
    \/ PromptReturn \/ PromptRaise \/ PromptAttachmentRaise

McpSpec == McpInit /\ [][McpNext]_vars

\* ---- claims --------------------------------------------------------------
CeilDiv(a, b) == (a + b - 1) \div b

\* pass j of this run has made all its summarize_summaries calls
Completed(j) == j < Len(passes) \/ pc \in {"layer", "base_save", "done"}

\* C1: one reduction pass over n >= 4 summaries produces exactly
\* ceil((n-1)/2) new summaries.
C1_ReductionLayerSize ==
    \A j \in 1..Len(passes) :
        (~passes[j].base /\ Completed(j) /\ passes[j].n >= 4)
            => Len(passes[j].out) = CeilDiv(passes[j].n - 1, 2)

\* C2: in a reduction pass batch number q (from 0) starts at input index 2q,
\* takes consecutive input elements, at most 3 of them, and the last element
\* of every batch but the final one is the first element of the next batch.
C2_OverlappingWindows ==
    \A j \in 1..Len(passes) :
        ~passes[j].base =>
            LET bs == passes[j].batches IN
            \A q \in 1..Len(bs) :
                /\ bs[q][1] = 2 * (q - 1)
                /\ Len(bs[q]) \in 1..3
                /\ \A m \in 1..Len(bs[q]) :
                       bs[q][m] = bs[q][1] + (m - 1) /\ bs[q][m] < passes[j].n
                /\ q < Len(bs) => bs[q][Len(bs[q])] = bs[q + 1][1]

C2_Witness ==
    \E j \in 1..Len(passes) :
        /\ ~passes[j].base /\ Completed(j) /\ passes[j].n = 8
        /\ Len(passes[j].batches) = 4
        /\ Len(passes[j].batches[4]) = 2

\* C3: a fresh document with 5 page summaries gets one reduction layer at
\* height 2 made of the two batches [0,1,2] and [2,3,4], whose summaries are at
\* positions 0 and 1 and linked NEXT/PREVIOUS; the layer of 2 then takes the
\* base case and the Document ends at height 3.
C3_FiveSummaries ==
    (pc = "done" /\ is_new_document /\ nPages = 5) =>
        /\ Len(passes) = 2
        /\ passes[1].h = 1 /\ ~passes[1].base
        /\ passes[1].batches = << <<0, 1, 2>>, <<2, 3, 4>> >>
        /\ passes[1].out[1].position = 0 /\ passes[1].out[2].position = 1
        /\ BagIn(<<passes[1].out[1].uuid, passes[1].out[2].uuid, "NEXT">>, edges)
        /\ BagIn(<<passes[1].out[2].uuid, passes[1].out[1].uuid, "PREVIOUS">>, edges)
        /\ passes[2].base /\ passes[2].n = 2
        /\ doc.height = 3

\* C4: on 1 <= n < 4 summaries at height h, summarize_layer makes one
\* summarization call over all of them, sets the Document's text to its result
\* and its height to h+1, persists the Document, creates exactly one
\* SUMMARIZES edge from the Document to each input summary, persists no new
\* Summary and does not recurse.
C4_BaseCase ==
    (pc = "done" /\ passes # << >>) =>
        LET b == Last(passes)
            n == Len(summaries)
        IN /\ b.base /\ n \in 1..3 /\ b.n = n
           /\ b.batches = << [j \in 1..n |-> j - 1] >>
           /\ Cardinality({j \in 1..Len(passes) : passes[j].h = b.h}) = 1
           /\ doc.text = b.out[1].text /\ doc.height = b.h + 1
           /\ doc \in nodes
           /\ \A j \in 1..n : BagIn(<<doc.uuid, summaries[j].uuid, "SUMMARIZES">>, edges)
           /\ Cardinality({e \in BagToSet(edges) : e[1] = doc.uuid /\ e[3] = "SUMMARIZES"}) = n
           /\ ~\E s \in nodes : s.label = "Summary" /\ s.height = b.h + 1

\* C5: the positions given to the summaries of a produced layer are 0, 1, ...
\* in creation order, without gap or duplicate, whether or not a write was
\* skipped; so the persisted positions of a layer have no gap either.
C5_PositionsContiguous ==
    /\ \A j \in 1..Len(passes) :
           \A q \in 1..Len(passes[j].out) : passes[j].out[q].position = q - 1
    /\ \A q \in 1..Len(new_summaries) : new_summaries[q].position = q - 1
    /\ \A q \in 1..Len(summaries) : summaries[q].position = q - 1
    /\ \A s \in TreeNodes :
           s.label = "Summary" =>
               \A p \in 0..(s.position - 1) :
                   \E t \in TreeNodes : /\ t.label = "Summary"
                                        /\ t.height = s.height
                                        /\ t.position = p

C5_Witness ==
    /\ ~is_new_document /\ pc = "reduce" /\ ~(i < Len(summaries))
    /\ Len(new_summaries) >= 4
    /\ \E q \in 1..Len(new_summaries) : new_summaries[q] \notin nodes
    /\ \E q \in 1..Len(new_summaries) : new_summaries[q] \in nodes

\* C6: the summaries made from a layer at height h have height h+1, the
\* summaries of one layer share their height, successive layers are at
\* heights 1, 2, 3, ... and the Document ends one above the last layer.
C6_HeightsStepByOne ==
    /\ \A j \in 1..Len(passes) :
           /\ passes[j].h = j
           /\ \A q \in 1..Len(passes[j].out) : passes[j].out[q].height = passes[j].h + 1
    /\ \A q \in 1..Len(summaries) : summaries[q].height = summaries[1].height
    /\ pc \in {"reduce", "reduce_append"} =>
           \A q \in 1..Len(new_summaries) :
               new_summaries[q].height = summaries[1].height + 1
    /\ (pc = "done" /\ passes # << >>) =>
           /\ doc.height = Last(passes).h + 1
           /\ \A d \in get_document_by_path : d.height = Last(passes).h + 1

C6_Witness == pc = "done" /\ Len(passes) = 3 /\ nPages = 8

\* C7: summarize_layer terminates: a reduction pass hands a strictly shorter
\* layer to the recursive call; every run that has started ends; and in a run
\* where no call fails, summarize_layer called on n >= 1 summaries reaches the
\* end of its base case.
C7_Terminates ==
    /\ [][(pc = "reduce" /\ pc' = "layer") => Len(summaries') < Len(summaries)]_vars
    /\ (pc \notin Resting) ~> (pc \in Resting)
    /\ (run > 1 /\ pc = "layer" /\ Len(summaries) >= 1) ~> (pc = "done")

C7_Witness ==
    pc = "done" /\ run > 1 /\ ~is_new_document /\ Len(passes) = 3

\* C8: after a successful run exactly one persisted node has the height of
\* the root, and it is the Document.
C8_RootHeightUnique ==
    pc = "done" =>
        /\ Cardinality(get_document_by_path) = 1
        /\ \A d \in get_document_by_path :
               {n \in TreeNodes : n.height = d.height} = {d}

C8_Witness ==
    /\ pc = "done" /\ ~is_new_document /\ passes # << >> /\ nPages = 4
    /\ \E s \in TreeNodes : s.height = doc.height - 1 /\ s.uuid[1] = 1

\* C9: whatever runs were aborted and wherever, no two persisted nodes share
\* (document id, height, position), and a run that is not aborted leaves the
\* Document with a root summary.
C9_UniqueAddress ==
    /\ \A a, b \in TreeNodes :
           (/\ a.document_uuid = b.document_uuid
            /\ a.height = b.height
            /\ a.position = b.position) => a = b
    /\ pc = "done" => \E d \in get_document_by_path : d.text # "" /\ d.height >= 0

C9_Witness ==
    /\ pc = "done" /\ run = 2 /\ passes # << >>
    /\ \E a, b \in TreeNodes : /\ a.label = "Summary" /\ b.label = "Summary"
                               /\ a.height = b.height
                               /\ a.uuid[1] = 1 /\ b.uuid[1] = 2

\* C10: after a successful run, fresh or resumed, every persisted Summary at
\* position p > 0 is linked NEXT/PREVIOUS with the persisted node at p-1 of
\* its layer and has a SUMMARIZES edge to every persisted member of its batch.
SourceBatch(s) ==
    IF s.height = 1
    THEN {t \in TreeNodes : t.height = 0 /\ t.position = s.position}
    ELSE {t \in TreeNodes : /\ t.height = s.height - 1
                            /\ t.position \in (2 * s.position)..(2 * s.position + 2)}

C10_LinkedAndSummarizing ==
    pc = "done" =>
        \A s \in TreeNodes :
            s.label = "Summary" =>
                /\ s.position > 0 =>
                       \E t \in TreeNodes :
                           /\ t.height = s.height /\ t.position = s.position - 1
                           /\ BagIn(<<t.uuid, s.uuid, "NEXT">>, edges)
                           /\ BagIn(<<s.uuid, t.uuid, "PREVIOUS">>, edges)
                /\ \A c \in SourceBatch(s) : BagIn(<<s.uuid, c.uuid, "SUMMARIZES">>, edges)

\* C11: in every persisted state, also one left by a run aborted at any
\* write, a Document stored with non-empty text and height >= 0 (what the
\* driver takes as fully processed) has its chunk persisted and linked to it,
\* and has a SUMMARIZES edge to every persisted member of the layer below it.
C11_MarkerImpliesRoot ==
    \A d \in get_document_by_path :
        FullyProcessed(d) =>
            /\ \E c \in nodes : /\ c.label = "Chunk"
                                /\ BagIn(<<c.uuid, d.uuid, "PART_OF">>, edges)
            /\ \A s \in TreeNodes :
                   s.height = d.height - 1 =>
                       BagIn(<<d.uuid, s.uuid, "SUMMARIZES">>, edges)

\* the same for the states a first run that was not cut short ends in
C11_FreshRunComplete == (pc = "done" /\ run = 1) => C11_MarkerImpliesRoot

\* C12: for a document created by this run no existence probe is issued
\* and every Page and Summary is written; for an existing document each save
\* step first probes (document id, height, position) of the node it is about
\* to write, and the write is made exactly when the probe returned false.
C12_SaveStep(node) ==
    /\ is_new_document =>
           /\ probe' = << >>
           /\ ops' # << >> /\ Head(ops') = NodeOp(node)
    /\ ~is_new_document =>
           /\ Len(probe') = 1
           /\ probe'[1].document_uuid = doc.uuid
           /\ probe'[1].height = node.height
           /\ probe'[1].position = node.position
           /\ probe'[1].exists =
                  (\E n \in TreeNodes : /\ n.document_uuid = doc.uuid
                                        /\ n.height = node.height
                                        /\ n.position = node.position)
           /\ (ops' # << >>) <=> ~probe'[1].exists
           /\ ops' # << >> => Head(ops') = NodeOp(node)

C12_ProbeBeforeWrite ==
    /\ [](is_new_document => probe = << >>)
    /\ [][/\ (pc = "page" /\ pc' = "page_summary")
               => C12_SaveStep(batch_results[k][1])
          /\ (pc = "page_summary" /\ pc' = "page_append")
               => C12_SaveStep(batch_results[k][2])
          /\ (pc = "reduce" /\ pc' = "reduce_append")
               => C12_SaveStep(new_summary')]_vars

C12_Witness ==
    /\ ~is_new_document /\ pc = "reduce_append" /\ ops = << >>
    /\ probe # << >> /\ probe[1].exists /\ probe[1].position = 1
    /\ \E q \in 1..Len(summaries) : summaries[q] \notin nodes

\* C13: save_node called again with the same id and the same field values
\* leaves the graph as one call left it; called with other field values it
\* replaces the properties of that node, adds no second node and touches no
\* other node.
C13_SaveNode(n) ==
    LET g1 == save_node(nodes, n) IN
    /\ save_node(g1, n) = g1
    /\ \A m \in EngineTreeNodes :
           (m.uuid = n.uuid /\ m.label = n.label) =>
               LET g2 == save_node(g1, m) IN
               /\ {x \in g2 : x.uuid = n.uuid} = {m}
               /\ {x \in g2 : x.uuid # n.uuid} = {x \in nodes : x.uuid # n.uuid}

C13_SaveNodeIdempotent ==
    /\ [](\A n \in EngineTreeNodes : C13_SaveNode(n))
    /\ [](\A a, b \in nodes : a.uuid = b.uuid => a = b)
    /\ [][(ops # << >> /\ Head(ops).op = "node" /\ ops' = Tail(ops)) =>
             LET n == Head(ops).node IN
             /\ n \in nodes => nodes' = nodes
             /\ n \in nodes'
             /\ Cardinality(nodes') =
                    Cardinality(nodes)
                    + (IF \E x \in nodes : x.uuid = n.uuid THEN 0 ELSE 1)]_vars

\* a save of a stored node with other field values is about to be made
C13_Witness ==
    /\ ops # << >> /\ Head(ops).op = "node"
    /\ \E x \in nodes : x.uuid = Head(ops).node.uuid /\ x # Head(ops).node
    /\ Cardinality(nodes) = 2

\* C14: create_edge(a, b, t) on a graph that has an edge of type t from a to
\* b leaves the edges unchanged, so after any sequence of operations the graph
\* holds at most one edge per (from, to, type).
C14_AtMostOneEdge ==
    \A t \in BagToSet(edges) :
        /\ CopiesIn(t, edges) = 1
        /\ create_edge(nodes, edges, t[1], t[2], t[3]) = edges

\* the call that repeats a stored edge is about to be made
C14_Witness ==
    /\ ops # << >> /\ Head(ops).op = "edge"
    /\ BagIn(<<Head(ops).from, Head(ops).to, Head(ops).type>>, edges)

\* the next write is a create_edge whose from-node or to-node is not stored
C15_EndpointMissing ==
    /\ ops # << >> /\ Head(ops).op = "edge"
    /\ \/ ~\E a \in nodes : a.uuid = Head(ops).from
       \/ ~\E b \in nodes : b.uuid = Head(ops).to

\* C15: create_edge called with a from-node or a to-node that is not in the
\* graph creates no edge and reports a failure to its caller, which ends the
\* run.
C15_MissingEndpointFails ==
    [][C15_EndpointMissing => (edges' = edges /\ pc' = "aborted")]_vars

\* the half that holds: no edge is created
C15_NoEdgeCreated == [][C15_EndpointMissing => edges' = edges]_vars

C16_Paired ==
    \A a, b \in {n.uuid : n \in nodes} :
        BagIn(<<a, b, "NEXT">>, edges) <=> BagIn(<<b, a, "PREVIOUS">>, edges)

\* C16: in every graph state a run leaves behind, also a run aborted by an
\* error, there is an edge NEXT from a to b exactly when there is an edge
\* PREVIOUS from b to a.
C16_NextIffPrevious == pc \in Resting => C16_Paired

\* the same for the states in which no call of the graph layer is in progress
\* and none was cut short
C16_BetweenCalls == (ops = << >> /\ run = 1 /\ pc # "aborted") => C16_Paired

C17_OneParent ==
    \A c \in nodes :
        c.label = "Chunk" =>
            /\ Cardinality({e \in BagToSet(edges) :
                                e[1] = c.uuid /\ e[3] = "PART_OF"}) = 1
            /\ \A e \in BagToSet(edges) :
                   (e[1] = c.uuid /\ e[3] = "PART_OF") =>
                       /\ CopiesIn(e, edges) = 1
                       /\ \E p \in TreeNodes : p.uuid = e[2]

\* C17: in every state a completed or an aborted run leaves behind, every
\* persisted Chunk has exactly one outgoing PART_OF edge, and it leads to a
\* persisted Document, Page or Summary.
C17_ChunkHasOneParent == pc \in Resting => C17_OneParent

\* the same for the states in which no call of the graph layer is in progress
\* and none was cut short
C17_BetweenCalls == (ops = << >> /\ run = 1 /\ pc # "aborted") => C17_OneParent

\* C18: no step of a run, completed or aborted, removes anything: every
\* stored node id stays stored, every node other than the Document keeps its
\* properties, and every stored edge stays stored.
C18_GraphOnlyGrows ==
    [][/\ {n.uuid : n \in nodes} \subseteq {n.uuid : n \in nodes'}
       /\ \A n \in nodes : n.label # "Document" => n \in nodes'
       /\ edges \sqsubseteq edges']_vars

\* a resumed run has completed over what an aborted run left
C18_Witness ==
    /\ pc = "done" /\ run = 2 /\ passes # << >>
    /\ \E n \in nodes : n.label = "Summary" /\ n.uuid[1] = 1
    /\ \E n \in nodes : n.label = "Summary" /\ n.uuid[1] = 2
    /\ \E e \in BagToSet(edges) : e[1][1] = 1 /\ e[3] = "NEXT"

\* the positions of the driver inside summarize_layer
C19_InLayer == {"layer", "base_save", "reduce", "reduce_append"}

\* C19: when a call raises inside summarize_layer the error leaves
\* summarize_layer and the driver uncaught: the writes still pending are
\* dropped, and until the driver is started again no summarization call and
\* no graph write is made.
C19_FailurePropagates ==
    /\ [][(pc \in C19_InLayer /\ pc' = "aborted") =>
             (ops' = << >> /\ nodes' = nodes /\ edges' = edges)]_vars
    /\ [][pc = "aborted" =>
             /\ nodes' = nodes /\ edges' = edges
             /\ run' = run => (pc' = "aborted" /\ ops' = << >> /\ passes' = passes)
             /\ run' # run => (run' = run + 1 /\ passes' = << >>)]_vars

\* a run was aborted inside summarize_layer after it had written a summary
C19_Witness ==
    /\ pc = "aborted" /\ run = 1 /\ ops = << >>
    /\ \E s \in nodes : s.label = "Summary" /\ s.height = 2
    /\ \A d \in get_document_by_path : ~FullyProcessed(d)

\* C20: when the ingestion of the PDF fails, the driver goes on to the
\* remaining entries of the folder: an invocation of the driver does not end
\* before its for loop has taken every entry.
C20_ContinuesAfterFailure == pc = "aborted" => fi = nFiles

\* without a failure the for loop does go on: after the PDF it takes the
\* entries that follow, one by one
C20_LoopGoesOn ==
    [][(pc = "done" /\ run' = run /\ fi' # fi) =>
          (pc' = "done" /\ fi < nFiles /\ fi' = fi + 1)]_vars

\* the step is the write of a Document node
C21_DocumentWrite ==
    /\ ops # << >> /\ Head(ops).op = "node" /\ Head(ops).node.label = "Document"
    /\ ops' = Tail(ops) /\ pc' = pc

\* C21: the persisted Document is written at its creation with empty text
\* and height -1, and once more by the base-case step, which sets the root
\* summary and the root height; its text and height change in no other step,
\* and no later run over the file writes it again.
C21_DocumentMutatedOnce ==
    /\ [][C21_DocumentWrite =>
             LET n == Head(ops).node IN
             \/ /\ pc = "batch" /\ get_document_by_path = {}
                /\ n.text = "" /\ n.height = -1
             \/ /\ pc = "base_save"
                /\ \A d \in get_document_by_path :
                       d.uuid = n.uuid /\ d.text = "" /\ d.height = -1
                /\ n.text # "" /\ n.height = Last(passes).h + 1]_vars
    /\ [][(\E d \in get_document_by_path : d \notin nodes') =>
             (C21_DocumentWrite /\ pc = "base_save")]_vars
    /\ [][(get_document_by_path # {}) =>
             Cardinality({n \in nodes' : n.label = "Document"}) = 1]_vars

\* a later run has found the Document complete and left it alone
C21_Witness ==
    /\ pc = "done" /\ run = 2 /\ passes = << >> /\ ops = << >>
    /\ \E d \in get_document_by_path : FullyProcessed(d) /\ d.height = 3

\* the step is the write of a Page node or of a page Summary node by the
\* loop over the results of a batch
C22_PageWrite ==
    /\ pc \in {"page_summary", "page_append"}
    /\ ops # << >> /\ Head(ops).op = "node"
    /\ Head(ops).node.label \in {"Page", "Summary"}
    /\ ops' = Tail(ops) /\ pc' = pc

\* C22: whatever order the extractions of a batch finish in, the loop over
\* the results is the only writer and takes the pages in increasing position:
\* each Page and page Summary written is the one at the position after the
\* pages already handled, and the graph is not touched from the dispatch of
\* a batch until every extraction of the batch has finished.
C22_OrderedSingleWriter ==
    /\ [][C22_PageWrite =>
             /\ Head(ops).node.position = Len(pages)
             /\ Head(ops).node.position = bi + k - 1
             /\ \A j \in 1..Len(batch_results) : batch_results[j] # << >>]_vars
    /\ [](\A j \in 1..Len(pages) : pages[j].position = j - 1)
    /\ [](pc \in {"batch", "gather", "page", "page_summary", "page_append"} =>
              /\ Len(summaries) = Len(pages)
              /\ \A j \in 1..Len(summaries) : summaries[j].position = j - 1)
    /\ [](pc = "gather" => ops = << >>)
    /\ [][pc = "gather" => (nodes' = nodes /\ edges' = edges)]_vars
    /\ [][(pc = "gather" /\ pc' = "page") =>
             (/\ Len(batch_results) = Len(batch_tasks)
              /\ \A j \in 1..Len(batch_results) :
                     batch_results[j] = batch_tasks[j])]_vars

\* every extraction but that of the first page has finished, and nothing of
\* the batch is written
C22_Witness ==
    /\ pc = "gather" /\ run = 1 /\ nPages >= 3
    /\ batch_results[1] = << >>
    /\ \A j \in 2..nPages : batch_results[j] # << >>
    /\ \A n \in nodes : n.label = "Document"

\* the step is the write of a Summary node
C23_SummaryWrite ==
    /\ ops # << >> /\ Head(ops).op = "node" /\ Head(ops).node.label = "Summary"
    /\ ops' = Tail(ops) /\ pc' = pc

\* the summarize_summaries calls of pass j took every summary of its input
C23_LayerComplete(j) ==
    /\ ~passes[j].base
    /\ \A x \in 0..(passes[j].n - 1) :
           \E b \in 1..Len(passes[j].batches) :
               \E c \in 1..Len(passes[j].batches[b]) : passes[j].batches[b][c] = x

\* C23: a pass over a layer starts only when the pass that produced the
\* layer has taken all of its input, so no Summary two layers up is computed
\* or written while the layer between is incomplete; and a Summary is
\* written at position p > 0 only when the Summary at position p - 1 of its
\* layer is stored.
C23_LayersInOrder ==
    /\ [](\A j \in 2..Len(passes) :
              /\ C23_LayerComplete(j - 1)
              /\ passes[j].h = passes[j - 1].h + 1
              /\ passes[j].n = Len(passes[j - 1].out)
              /\ \A o \in 1..Len(passes[j - 1].out) :
                     /\ passes[j - 1].out[o].height = passes[j].h
                     /\ passes[j - 1].out[o].position = o - 1)
    /\ [][(C23_SummaryWrite /\ pc = "reduce_append") =>
             LET n == Head(ops).node IN
             /\ n = Last(Last(passes).out)
             /\ n.height = Last(passes).h + 1
             /\ n.position = Len(new_summaries)]_vars
    /\ [][(C23_SummaryWrite /\ Head(ops).node.position > 0) =>
             LET n == Head(ops).node IN
             \E m \in nodes :
                 /\ m.label = "Summary" /\ m.document_uuid = n.document_uuid
                 /\ m.height = n.height /\ m.position = n.position - 1]_vars

\* three layers were reduced one after the other and the top one is stored
C23_Witness ==
    /\ pc = "done" /\ Len(passes) = 3 /\ passes[3].base /\ passes[2].n = 4
    /\ \E m \in nodes : m.label = "Summary" /\ m.height = 3 /\ m.position = 1

\* the graph after save_node(a) and then save_node(b)
C24_Both(a, b) == save_node(save_node(nodes, a), b)

\* C24: save_node is one statement, so two calls interleave as one after the
\* other in either order.  For nodes of distinct ids both orders leave the
\* same graph, in which each of the two has exactly the properties of its own
\* call and every other node is as it was; and a save changes no node of
\* another id.
C24_DistinctIdsIndependent ==
    /\ [](\A a, b \in EngineTreeNodes \cup {EngineChunk} :
              a.uuid # b.uuid =>
                  /\ C24_Both(a, b) = C24_Both(b, a)
                  /\ {x \in C24_Both(a, b) : x.uuid = a.uuid} = {a}
                  /\ {x \in C24_Both(a, b) : x.uuid = b.uuid} = {b}
                  /\ {x \in C24_Both(a, b) : x.uuid \notin {a.uuid, b.uuid}}
                         = {x \in nodes : x.uuid \notin {a.uuid, b.uuid}})
    /\ [][(ops # << >> /\ Head(ops).op = "node" /\ ops' = Tail(ops)) =>
             LET n == Head(ops).node IN
             /\ {x \in nodes' : x.uuid = n.uuid} = {n}
             /\ {x \in nodes' : x.uuid # n.uuid}
                    = {x \in nodes : x.uuid # n.uuid}]_vars

\* two pages of distinct ids were saved by two calls and nothing else was done
C24_Witness ==
    /\ calls = 2 /\ ops = << >>
    /\ nodes = {extract_and_summarize_page(1, EnginePage)[1], EngineOtherPage}

\* C25: chunking and embedding a text without fragments yields no Chunk,
\* raises nothing and makes no request to the embedding provider: the
\* generator goes from its start straight to its end.
C25_EmptyTextNoCall ==
    /\ []((gem.op \in {"embed", "chunk_text_for_embedding"} /\ gem.n = 0) =>
              /\ gem.out = << >> /\ gem.calls = 0
              /\ gem.pc \in {"loop", "returned"})
    /\ [][(gem.op = "embed" /\ gem.n = 0 /\ gem.pc = "loop") =>
             gem'.pc = "returned"]_vars
    /\ [](split_text("") = << >>)

\* embed over no fragment has ended
C25_Witness ==
    /\ gem.op = "embed" /\ gem.n = 0 /\ gem.pc = "returned"
    /\ gem.out = << >> /\ gem.calls = 0

\* C26: the Chunks an embed call has yielded carry the sequence numbers 0, 1,
\* 2, ... in yield order, the x-th Chunk being the x-th fragment, and a call
\* that ends has yielded each fragment once.
C26_SequenceOnce ==
    gem.op = "embed" =>
        /\ \A x \in 1..Len(gem.out) :
               gem.out[x].sequence = x - 1 /\ gem.out[x].text = x - 1
        /\ gem.pc = "returned" => Len(gem.out) = gem.n

\* what holds of C26: while all fragments go in one request nothing is
\* yielded before a request can fail, and the numbering is as claimed
C26_OneRequest ==
    (gem.op = "embed" /\ gem.n <= batch_size) => C26_SequenceOnce

\* C27: Gemini.prompt makes at most 3 attempts and at most 3 requests to the
\* model; it returns the response of the first request that succeeds, makes
\* the next attempt after the first and after the second failure, and raises
\* after the third.
C27_PromptThreeAttempts ==
    /\ [](gem.op = "prompt" =>
              /\ gem.retry_count <= 2
              /\ gem.calls <= gem.retry_count + 1
              /\ gem.calls <= 3
              /\ gem.pc = "raised" => gem.retry_count = 2
              /\ gem.pc = "returned" => gem.out = << "response" >>)
    /\ [][(gem.op = "prompt" /\ gem.pc = "attempt" /\ gem' # gem) =>
             \/ /\ gem'.pc = "returned" /\ gem'.calls = gem.calls + 1
                /\ gem'.retry_count = gem.retry_count
             \/ /\ gem'.pc = "attempt" /\ gem.retry_count < 2
                /\ gem'.retry_count = gem.retry_count + 1
             \/ /\ gem'.pc = "raised" /\ gem.retry_count = 2]_vars
    /\ [][(gem.op = "prompt" /\ gem.pc \in {"returned", "raised"}) =>
             gem' = gem]_vars

\* three requests were made and failed, and the error is raised
C27_Witness ==
    gem.op = "prompt" /\ gem.pc = "raised" /\ gem.calls = 3

\* the one operation of the query is an allowed call at its start
C28_OnlyAllowedCall(q) ==
    /\ is_query_allowed(q)
    /\ \A p \in 1..Len(q) :
           q[p] \in {"CALL", "DELETE"} => p = SkipWs(q, 1)

\* C28: a query the tool hands to the database consists of one allowed
\* full-text CALL and holds no other operation.
C28_ExecutesOnlyAllowedCall ==
    srv.pc \in {"run", "executed", "error"} => C28_OnlyAllowedCall(srv.query)

\* what holds of C28: a query handed to the database starts with an allowed
\* call, and a query that does not is rejected
C28_PrefixChecked ==
    /\ srv.pc \in {"run", "executed", "error"} =>
           \E pattern \in ALLOWED_PATTERNS : re_match(pattern, strip(srv.query))
    /\ srv.pc = "rejected" => ~is_query_allowed(srv.query)

\* the step is a call of _call_mcp_tool for a tool the model asked for
C29_ToolCallStep ==
    /\ mcp.pc = "tools" /\ mcp'.pc = "tools" /\ mcp'.tool_result # << >>
    /\ mcp'.tool_result # mcp.tool_result

\* C29: whatever the sessions list and however often the servers are
\* connected and the tools registered, neither the tool registry nor the
\* declarations handed to the model hold write_neo4j_cypher; and a request
\* of the model for it, or for any tool that is not registered, is answered
\* with an error without a call on a session.
C29_WriteToolNeverRegistered ==
    /\ [](\A e \in mcp.tool_registry : e.tool # "write_neo4j_cypher")
    /\ [](\A d \in 1..Len(mcp.function_declarations) :
              /\ mcp.function_declarations[d] # "write_neo4j_cypher"
              /\ \E e \in mcp.tool_registry :
                     e.tool = mcp.function_declarations[d])
    /\ [][C29_ToolCallStep =>
             LET r == mcp'.tool_result IN
             /\ (r.tool = "write_neo4j_cypher"
                 \/ ~\E e \in mcp.tool_registry : e.tool = r.tool)
                    => (~r.session_called /\ r.error = "not found")
             /\ r.session_called => \E e \in mcp.tool_registry : e.tool = r.tool
             /\ mcp'.tool_registry = mcp.tool_registry]_vars

\* the session of neo4j_cypher listed its tools, the read tool is registered
\* for it, and the model's request for the write tool was answered with an
\* error without a call on the session
C29_Witness ==
    /\ mcp.pc = "tools" /\ mcp.tool_result # << >>
    /\ mcp.tool_result.tool = "write_neo4j_cypher"
    /\ ~mcp.tool_result.session_called /\ mcp.tool_result.error = "not found"
    /\ mcp.mcp_sessions = Servers
    /\ \E e \in mcp.tool_registry :
           e.tool = "read_neo4j_cypher" /\ e.server_name = "neo4j_cypher"

RecursiveInit ==
    /\ nodes = {} /\ edges = EmptyBag
    /\ nPages = 0 /\ run = 0 /\ pc = "idle" /\ ops = << >>
    /\ nFiles = 1 /\ fi = 0 /\ calls = 0
    /\ NoMem /\ NoClients

RecToolNames == {"recursive_query", "get_recursion_status", "other_tool"}

\* the arguments dict of a tool call: each key is present or not
RecArguments ==
    { q @@ d :
        q \in {<< >>} \cup {[question |-> x] : x \in {"", "q"}},
        d \in {<< >>} \cup {[depth |-> n] : n \in 0..MaxDepthArg} }

\* dict.get(key, default)
get(arguments, key, default) ==
    IF key \in DOMAIN arguments THEN arguments[key] ELSE default

MaxDepthMessage == "Maximum recursion depth (3) reached"

\* mutant: the check lets one more level through
DepthExceeded_OneMore(operating_depth) ==
    operating_depth > MAX_RECURSION_DEPTH + 1

\* line 123
DepthExceeded(operating_depth) == operating_depth > MAX_RECURSION_DEPTH

\* the tool result goes back to the caller: the model of the innermost nested
\* client, or the client outside the chain
RecBack(chain) == IF chain = << >> THEN "returned" ELSE "prompt"

\* lines 80-129 and 187-188: the handler up to the try block.  question is
\* None when the key is missing; None and "" are both falsy
recursive_handle_call_tool ==
    /\ rec.pc \in {"idle", "returned", "raised", "prompt"}
    /\ rec.calls < MaxToolCalls
    /\ \E name \in RecToolNames, arguments \in RecArguments :
         LET question == get(arguments, "question", "")
             current_depth == get(arguments, "depth", 0)
             operating_depth == current_depth + 1
             call == [rec EXCEPT !.name = name, !.question = question,
                                 !.depth = current_depth,
                                 !.operating_depth = 0,
                                 !.calls = rec.calls + 1]
         IN rec' =
              IF name = "get_recursion_status"
              THEN [call EXCEPT !.pc = RecBack(rec.clients),
                                !.result = "status"]
              ELSE IF name = "recursive_query"
              THEN IF question = ""
                   THEN [call EXCEPT !.pc = RecBack(rec.clients),
                            !.result = "Error: Question parameter is required"]
                   ELSE IF DepthExceeded(operating_depth)
                   THEN [call EXCEPT !.pc = RecBack(rec.clients),
                                     !.operating_depth = operating_depth,
                                     !.result = MaxDepthMessage]
                   ELSE [call EXCEPT !.pc = "try",
                                     !.operating_depth = operating_depth,
                                     !.result = ""]
              ELSE [call EXCEPT !.pc = "raised", !.result = "ValueError"]
    /\ UNCHANGED <<driver, gem, srv, mcp, pdf>>

\* lines 135-167: the nested client is created and connected and its prompt
\* starts; the first request to its model is made
RecursivePrompt ==
    /\ rec.pc = "try"
    /\ rec' = [rec EXCEPT !.pc = "prompt",
                          !.clients = Append(@, rec.operating_depth),
                          !.model_calls = @ + 1]
    /\ UNCHANGED <<driver, gem, srv, mcp, pdf>>

\* lines 178-185: the constructor, the connection or the prompt raises; the
\* handler returns the error text.  (MCPAnthropicClient.__init__ of this tree
\* has no recursion_depth parameter: line 135 raises TypeError.)
RecursiveError ==
    /\ rec.pc = "try"
    /\ rec' = [rec EXCEPT !.pc = RecBack(rec.clients),
                          !.result = "Error processing recursive query"]
    /\ UNCHANGED <<driver, gem, srv, mcp, pdf>>

\* lines 167-176: the prompt of the innermost nested client returns and its
\* handler returns the response
RecursiveReturn ==
    /\ rec.pc = "prompt"
    /\ LET chain == SubSeq(rec.clients, 1, Len(rec.clients) - 1)
       IN rec' = [rec EXCEPT !.pc = RecBack(chain), !.clients = chain,
                             !.result = "[Recursion depth]"]
    /\ UNCHANGED <<driver, gem, srv, mcp, pdf>>

RecursiveNext ==
    \/ recursive_handle_call_tool \/ RecursivePrompt \/ RecursiveError
    \/ RecursiveReturn

RecursiveSpec == RecursiveInit /\ [][RecursiveNext]_vars

\* C31: no nested client operates at a depth greater than
\* MAX_RECURSION_DEPTH, and a recursive_query call received with depth d,
\* d + 1 > 3, returns the maximum-depth message without creating a client or
\* calling a model.
C31_Received ==
    /\ rec'.calls = rec.calls + 1
    /\ rec'.name = "recursive_query" /\ rec'.question # ""
    /\ rec'.depth + 1 > MAX_RECURSION_DEPTH

C32_Persisted == {n \in nodes : n.label = "Document"}

C32_Marked == \E n \in C32_Persisted : n.text # "" /\ n.height >= 0

C32_SkipOrResume ==
    [][/\ (run' = run + 1 /\ C32_Marked) =>
            /\ pc' = "done" /\ ops' = << >>
            /\ nodes' = nodes /\ edges' = edges
            /\ pages' = << >> /\ batch_results' = << >> /\ passes' = << >>
       /\ (pc = "done" /\ run' = run) =>
            /\ pc' = "done" /\ ops = << >> /\ ops' = << >>
            /\ nodes' = nodes /\ edges' = edges
            /\ pages' = pages /\ batch_results' = batch_results
            /\ passes' = passes
       /\ (run' = run + 1 /\ C32_Persisted # {} /\ ~C32_Marked) =>
            /\ pc' = "batch" /\ ops' = << >> /\ ~is_new_document'
            /\ \E n \in C32_Persisted : doc'.uuid = n.uuid
       /\ \A n, m \in nodes' :
            (n.label = "Document" /\ m.label = "Document") => n.uuid = m.uuid
      ]_vars

\* the second run over a file of three pages found the marked Document
C32_Witness ==
    /\ run = 2 /\ pc = "done" /\ nPages = 3
    /\ doc # << >> /\ ~is_new_document /\ FullyProcessed(doc)
    /\ doc.uuid[1] = 1
    /\ pages = << >> /\ passes = << >>

\* C33: when the run that created the Document of a file of P >= 1 pages has
\* finished, every position p of 0..P-1 holds exactly one Page at height 0
\* and exactly one Summary at height 1; the Summary SUMMARIZES the Page, the
\* Document CONTAINS the Page and the Page is PART_OF the Document; the Pages
\* at p and p+1 are linked NEXT and PREVIOUS, and so are their Summaries.
C33_At(label, h, p) ==
    {n \in nodes : n.label = label /\ n.height = h /\ n.position = p}

C33_Edge(a, b, type) == \A x \in a, y \in b : BagIn(<<x.uuid, y.uuid, type>>, edges)

C33_Linked(a, b) == C33_Edge(a, b, "NEXT") /\ C33_Edge(b, a, "PREVIOUS")

C33_Ingested == pc = "done" /\ is_new_document /\ ops = << >> /\ nPages >= 1

C33_PageLayerComplete ==
    C33_Ingested =>
      \A p \in 0..(nPages - 1) :
        /\ Cardinality(C33_At("Page", 0, p)) = 1
        /\ Cardinality(C33_At("Summary", 1, p)) = 1
        /\ C33_Edge(C33_At("Summary", 1, p), C33_At("Page", 0, p), "SUMMARIZES")
        /\ C33_Edge({n \in nodes : n.label = "Document"}, C33_At("Page", 0, p),
                    "CONTAINS")
        /\ C33_Edge(C33_At("Page", 0, p), {n \in nodes : n.label = "Document"},
                    "PART_OF")
        /\ Cardinality({n \in nodes : n.label = "Document"}) = 1
        /\ p + 1 < nPages =>
             /\ C33_Linked(C33_At("Page", 0, p), C33_At("Page", 0, p + 1))
             /\ C33_Linked(C33_At("Summary", 1, p), C33_At("Summary", 1, p + 1))

\* a fresh document of four pages has been ingested
C33_Witness ==
    /\ C33_Ingested /\ nPages = 4 /\ run = 1
    /\ \A p \in 0..3 : C33_At("Page", 0, p) # {} /\ C33_At("Summary", 1, p) # {}

\* ---- split/pdf.py: split_pdf_to_images --------------------------------------
\* PdfSpec: one PDF and its output directory.  pdf.control is the set of
\* control files that exist, pdf.pages_dir the set of page files, pdf.out the
\* files the call in progress has yielded, pdf.renders the pages it has
\* rendered.  History: pdf.original is what the split that succeeded yielded,
\* pdf.interrupted tells that a call was killed or abandoned, pdf.calls counts
\* the calls up to MaxSplitCalls.  The generator runs when the caller iterates
\* it; a call is killed with the process, or abandoned by its caller at a
\* yield.
PdfInit ==
    /\ nodes = {} /\ edges = EmptyBag
    /\ nPages = 0 /\ run = 0 /\ pc = "idle" /\ ops = << >>
    /\ nFiles = 1 /\ fi = 0 /\ calls = 0
    /\ NoMem /\ gem = GemIdle /\ srv = SrvIdle /\ mcp = McpNew("gemini")
    /\ rec = RecIdle
    /\ \E n \in 1..MaxPdfPages : pdf = [PdfIdle EXCEPT !.page_count = n]

\* line 72: f"{page_num + 1:05d}.jpg", the name as its sequence of digits
Digits(n) ==
    IF n < 100000
    THEN << (n \div 10000) % 10, (n \div 1000) % 10, (n \div 100) % 10,
            (n \div 10) % 10, n % 10 >>
    ELSE << n \div 100000, (n \div 10000) % 10, (n \div 1000) % 10,
            (n \div 100) % 10, (n \div 10) % 10, n % 10 >>

Filename(page_num) == Digits(page_num + 1)

\* str.__lt__: the order of the first place where the names differ
StrLess(a, b) ==
    \E j \in 1..Len(b) :
        /\ \A h \in 1..(j - 1) : h <= Len(a) /\ a[h] = b[h]
        /\ (j > Len(a) \/ a[j] < b[j])

RECURSIVE SortedBy(_, _)
SortedBy(files, first) ==
    IF files = {}
    THEN << >>
    ELSE LET f == CHOOSE x \in files : \A y \in files \ {x} : first[x, y]
         IN << f >> \o SortedBy(files \ {f}, first)

\* mutant: the files come in descending order of their names
sorted_glob_Descending(files) ==
    SortedBy(files, [x \in files, y \in files |-> StrLess(y, x)])

\* line 40: sorted(pages_dir.glob("*.jpg"))
sorted_glob(files) ==
    SortedBy(files, [x \in files, y \in files |-> StrLess(x, y)])

PdfResting == {"idle", "finished", "raised", "abandoned", "killed"}

\* mutant: the control file is copied, the old name stays
rename_Copy(control, from, to) == control \cup {to}

\* Path.rename
rename(control, from, to) == (control \ {from}) \cup {to}

\* line 11: the call makes the generator; no line of the body has run yet
split_pdf_to_images ==
    /\ pdf.pc \in PdfResting
    /\ pdf' = [pdf EXCEPT !.calls = IF @ < MaxSplitCalls THEN @ + 1 ELSE @,
                          !.page_num = 0, !.out = << >>, !.renders = 0,
                          !.pc = "created"]
    /\ UNCHANGED <<driver, gem, srv, mcp, rec>>

\* lines 17-57: the first next() runs the body up to the try block.
\* control.success: the existing files are yielded and the call returns;
\* control.in-progress: the call returns; else control.error and the pages
\* are removed and control.in-progress is created
PdfStart ==
    /\ pdf.pc = "created"
    /\ pdf' =
         IF "control.success" \in pdf.control
         THEN [pdf EXCEPT !.out = sorted_glob(pdf.pages_dir),
                          !.pc = "finished"]
         ELSE IF "control.in-progress" \in pdf.control
         THEN [pdf EXCEPT !.pc = "finished"]
         ELSE [pdf EXCEPT
                 !.pages_dir = IF "control.error" \in pdf.control
                               THEN {} ELSE @,
                 !.control = (@ \ {"control.error"})
                             \cup {"control.in-progress"},
                 !.pc = "open"]
    /\ UNCHANGED <<driver, gem, srv, mcp, rec>>

\* lines 60-65: the pages folder is made and the PDF is opened
PdfOpen ==
    /\ pdf.pc = "open"
    /\ pdf' = [pdf EXCEPT !.pc = "render"]
    /\ UNCHANGED <<driver, gem, srv, mcp, rec>>

\* lines 67-76: the next page is rendered and saved and its path is yielded;
\* the generator is then suspended at the yield
PdfRender ==
    /\ pdf.pc = "render" /\ pdf.page_num < pdf.page_count
    /\ pdf' = [pdf EXCEPT !.pages_dir = @ \cup {Filename(pdf.page_num)},
                          !.out = Append(@, Filename(pdf.page_num)),
                          !.renders = @ + 1,
                          !.page_num = @ + 1]
    /\ UNCHANGED <<driver, gem, srv, mcp, rec>>

\* lines 78-82: after the last page control.in-progress is renamed to
\* control.success
PdfSuccess ==
    /\ pdf.pc = "render" /\ pdf.page_num = pdf.page_count
    /\ pdf' = [pdf EXCEPT !.control = rename(@, "control.in-progress",
                                             "control.success"),
                          !.original = pdf.out,
                          !.pc = "finished"]
    /\ UNCHANGED <<driver, gem, srv, mcp, rec>>

\* lines 84-91: opening, rendering or saving raises an Exception;
\* control.in-progress, if it exists, is renamed to control.error
PdfRaise ==
    /\ pdf.pc \in {"open", "render"}
    /\ pdf' = [pdf EXCEPT
                 !.control = IF "control.in-progress" \in @
                             THEN rename(@, "control.in-progress",
                                         "control.error")
                             ELSE @,
                 !.pc = "raised"]
    /\ UNCHANGED <<driver, gem, srv, mcp, rec>>

\* the caller stops iterating and drops the generator: GeneratorExit is
\* raised at the yield of line 76; it is not an Exception, so the handler of
\* line 84 does not run
PdfAbandon ==
    /\ pdf.pc = "render" /\ pdf.page_num >= 1
    /\ pdf' = [pdf EXCEPT !.pc = "abandoned", !.interrupted = TRUE]
    /\ UNCHANGED <<driver, gem, srv, mcp, rec>>

\* the process is killed inside the try block: no handler runs
PdfKill ==
    /\ pdf.pc \in {"open", "render"}
    /\ pdf' = [pdf EXCEPT !.pc = "killed", !.interrupted = TRUE]
    /\ UNCHANGED <<driver, gem, srv, mcp, rec>>

PdfProgress ==
    split_pdf_to_images \/ PdfStart \/ PdfOpen \/ PdfRender \/ PdfSuccess

PdfNext == PdfProgress \/ PdfRaise \/ PdfAbandon \/ PdfKill

PdfSpec == PdfInit /\ [][PdfNext]_vars

\* PdfLive: nothing raises, and only the first call is killed or abandoned.
\* Every later call is iterated to its end: the caller keeps calling next()
\* and the process keeps running.
PdfAbandonFirst == PdfAbandon /\ pdf.calls = 1

PdfKillFirst == PdfKill /\ pdf.calls = 1

PdfLiveNext == PdfProgress \/ PdfAbandonFirst \/ PdfKillFirst

PdfLive == PdfInit /\ [][PdfLiveNext]_vars /\ WF_vars(PdfProgress)

\* the page files of the whole PDF, in page order
AllPages(n) == [j \in 1..n |-> Filename(j - 1)]

\* C34: once control.success exists, a call of split_pdf_to_images renders
\* no page, leaves the control files and the page files as they are, and
\* yields the files the split that succeeded had yielded, in the same order.
C34_ReplayOfSplit ==
    [][("control.success" \in pdf.control /\ pdf.pc = "created") =>
          /\ pdf'.pc = "finished" /\ pdf'.renders = 0
          /\ pdf'.control = pdf.control /\ pdf'.pages_dir = pdf.pages_dir
          /\ pdf'.out = pdf.original
          /\ pdf'.out = AllPages(pdf.page_count)]_vars

\* the second call on a PDF of three pages has replayed the first
C34_Witness ==
    /\ pdf.calls = 2 /\ pdf.pc = "finished" /\ pdf.page_count = 3
    /\ "control.success" \in pdf.control
    /\ pdf.renders = 0 /\ Len(pdf.out) = 3 /\ pdf.out = pdf.original

\* C36: at most one of control.success, control.in-progress and
\* control.error exists, and control.success exists only when a page file of
\* every page of the PDF has been rendered.
C36_OneControlFile ==
    /\ Cardinality(pdf.control) <= 1
    /\ "control.success" \in pdf.control =>
         /\ \A j \in 0..(pdf.page_count - 1) : Filename(j) \in pdf.pages_dir
         /\ Len(pdf.original) = pdf.page_count

\* a first call raised after two pages; the second call cleaned up and
\* rendered the three pages
C36_Witness ==
    /\ pdf.calls = 2 /\ pdf.pc = "finished" /\ ~pdf.interrupted
    /\ pdf.control = {"control.success"}
    /\ pdf.page_count = 3 /\ pdf.renders = 3

\* C37: after a call that was killed or abandoned, a later call yields all
\* the pages of the PDF.
C37_InterruptedSplitRecovers ==
    [](pdf.interrupted =>
         <>(pdf.pc = "finished" /\ pdf.out = AllPages(pdf.page_count)))

\* ---- get_connection_status ---------------------------------------------------
\* lines 547-552 (890-895): status[server.name] = i < len(self.mcp_sessions),
\* i the 0-based place of the server in self.servers
get_connection_status ==
    [name \in {Servers[j] : j \in 1..Len(Servers)} |->
        \E j \in 1..Len(Servers) :
            Servers[j] = name /\ j - 1 < Len(mcp.mcp_sessions)]

\* the servers a session was established for
Connected == {mcp.mcp_sessions[j] : j \in 1..Len(mcp.mcp_sessions)}

\* C35: get_connection_status is True for exactly the servers that a session
\* was established for, and the server_name of a registered tool is the name
\* of the server whose session provides the tool.
C35_StatusAndNamesTrue ==
    mcp.pc = "ready" =>
      /\ \A name \in DOMAIN get_connection_status :
            get_connection_status[name] <=> name \in Connected
      /\ \A e \in mcp.tool_registry :
            e.server_name = mcp.mcp_sessions[e.session]

\* C38: in a reduction pass on n >= 4 elements every input element is in at
\* least one batch and in at most two; and when the run that created the
\* Document has finished, every Summary is the target of a SUMMARIZES edge
\* from a node of the layer above.
C38_BatchesOf(pass, e) ==
    {q \in 1..Len(pass.batches) :
        \E m \in 1..Len(pass.batches[q]) : pass.batches[q][m] = e}

C38_Summarized(n) ==
    \E m \in TreeNodes :
        /\ m.height = n.height + 1 /\ m.label \in {"Summary", "Document"}
        /\ BagIn(<<m.uuid, n.uuid, "SUMMARIZES">>, edges)

C38_EveryElementCovered ==
    /\ \A j \in 1..Len(passes) :
         (~passes[j].base /\ Completed(j) /\ passes[j].n >= 4) =>
            \A e \in 0..(passes[j].n - 1) :
                Cardinality(C38_BatchesOf(passes[j], e)) \in 1..2
    /\ (pc = "done" /\ is_new_document /\ ops = << >>) =>
         \A n \in TreeNodes : n.label = "Summary" => C38_Summarized(n)

\* a fresh document of eight pages: the pass over the eight page summaries
\* and the pass over the four summaries above them are done
C38_Witness ==
    /\ pc = "done" /\ is_new_document /\ ops = << >> /\ nPages = 8
    /\ Len(passes) = 3
    /\ passes[1].n = 8 /\ passes[2].n = 4 /\ passes[3].base
    /\ Cardinality(C38_BatchesOf(passes[1], 2)) = 2
    /\ Cardinality(C38_BatchesOf(passes[1], 1)) = 1

\* C39: the document_uuid of every Document object, constructed or rebuilt
\* by Document.from_neo4j, equals its uuid, and so does the document_uuid of
\* the persisted Document, whatever run saved it.
C39_DocumentUuidIsUuid ==
    /\ doc # << >> => doc.document_uuid = doc.uuid
    /\ \A n \in nodes : n.label = "Document" => n.document_uuid = n.uuid

====
